---- MODULE Spec2Model ----
(***************************************************************************)
(* Model of tvara's workflow execution engine (tvara/core/workflow.py) and *)
(* of the agent tool-call loop (tvara/core/agent.py).                      *)
(*                                                                         *)
(* Python strings are modelled as token sequences ("texts"): a token is a  *)
(* run of whitespace, a Markdown fence, a piece of prose, a JSON object or *)
(* a non-object JSON value.  The string "X" of the vocabulary is the text  *)
(* <<Word("X")>> and "" is the empty text.  JSON decoding, fence removal,  *)
(* the {...} regular expression and the substring tests of the code are    *)
(* operators over these token sequences.                                   *)
(***************************************************************************)
EXTENDS Integers, Sequences, FiniteSets, TLC

\* ------------------------------------------------------------------ bounds
\* largest max_iterations value a workflow or an agent is configured with
MaxIter == 2

\* ------------------------------------------------------- JSON / text values
\* a JSON member value: absent key, string, or a non-string value (null)
Abs == [ty |-> "absent", s |-> ""]
JNull == [ty |-> "null", s |-> ""]
JStr(x) == [ty |-> "str", s |-> x]

\* the value under the "tool_call" key
\* (a string, null, or a dict with tool_name, tool_input and maybe other keys)
NoTC == [ty |-> "absent", s |-> "", tool_name |-> Abs, tool_input |-> Abs, extra |-> FALSE]
ToolCallDict(n, i) == [ty |-> "dict", s |-> "", tool_name |-> n, tool_input |-> i,
                       extra |-> FALSE]
ToolCallOther == [ty |-> "dict", s |-> "", tool_name |-> Abs, tool_input |-> Abs,
                  extra |-> TRUE]
ToolCallStr(x) == [ty |-> "str", s |-> x, tool_name |-> Abs, tool_input |-> Abs,
                   extra |-> FALSE]
ToolCallNull == [ty |-> "null", s |-> "", tool_name |-> Abs, tool_input |-> Abs,
                 extra |-> FALSE]

\* the value under the "connector_call" key
NoCC == [ty |-> "absent", connector_name |-> Abs, connector_action |-> Abs,
         connector_input |-> Abs]
ConnectorCallDict(n, a, i) == [ty |-> "dict", connector_name |-> n,
                               connector_action |-> a, connector_input |-> i]

\* a JSON object with the keys the wire formats use; {} is EmptyObj
EmptyObj == [action |-> Abs, agent_name |-> Abs, task_input |-> Abs,
             final_answer |-> Abs, reasoning |-> Abs,
             tool_call |-> NoTC, connector_call |-> NoCC]

\* the two fence markers: three backticks, bare or tagged json
FenceBare == "fence"
FenceJson == "fence json"

Ws == [k |-> "ws", s |-> " ", o |-> EmptyObj]
Fence(x) == [k |-> "fence", s |-> x, o |-> EmptyObj]
Word(x) == [k |-> "word", s |-> x, o |-> EmptyObj]
ObjTok(obj) == [k |-> "obj", s |-> "", o |-> obj]
ArrTok == [k |-> "arr", s |-> "[1]", o |-> EmptyObj]

\* the Python str with the given vocabulary content
StrText(x) == IF x = "" THEN <<>> ELSE <<Word(x)>>

\* a Python value held by a dict entry or a result field
PAbsent == [ty |-> "absent", t |-> <<>>]
PNone == [ty |-> "none", t |-> <<>>]
PStr(text) == [ty |-> "str", t |-> text]
PLit(x) == PStr(StrText(x))

ValToPy_NullIsAbsent(v) == IF v.ty = "str" THEN PLit(v.s) ELSE PAbsent
\* json.loads of a member value
ValToPy(v) == IF v.ty = "str" THEN PLit(v.s)
              ELSE IF v.ty = "null" THEN PNone ELSE PAbsent

\* vocabulary strings s with "complete" in s.lower()
CompleteWords == {"complete", "All tasks COMPLETE", "not complete yet"}
\* vocabulary strings s with "tool failed" or "error executing tool" in s.lower()
FailWords == {"Tool Failed: timeout", "Error executing tool 'x'"}

\* the strings a JSON object serialises (member values, nested ones included)
ObjStrings(obj) ==
    {v.s : v \in {w \in {obj.action, obj.agent_name, obj.task_input,
                         obj.final_answer, obj.reasoning,
                         obj.tool_call.tool_name, obj.tool_call.tool_input,
                         obj.connector_call.connector_name,
                         obj.connector_call.connector_action,
                         obj.connector_call.connector_input} : w.ty = "str"}}
    \cup (IF obj.tool_call.ty = "str" THEN {obj.tool_call.s} ELSE {})

TokStrings(tok) == IF tok.k = "obj" THEN ObjStrings(tok.o) ELSE {tok.s}

\* phrase in text.lower(), for the phrases whose vocabulary set is words
ContainsLower(text, words) ==
    \E i \in 1..Len(text) : TokStrings(text[i]) \cap words # {}

\* str.strip()
Strip(text) ==
    LET nonws == {i \in 1..Len(text) : text[i].k # "ws"}
    IN IF nonws = {} THEN <<>>
       ELSE LET lo == CHOOSE i \in nonws : \A j \in nonws : i <= j
                hi == CHOOSE i \in nonws : \A j \in nonws : i >= j
            IN SubSeq(text, lo, hi)

\* re.sub removing a leading fence, with its optional json tag, and the whitespace after it
RemoveLeadingFence(text) ==
    IF text # <<>> /\ text[1].k = "fence"
    THEN LET rest == Tail(text)
             nonws == {i \in 1..Len(rest) : rest[i].k # "ws"}
         IN IF nonws = {} THEN <<>>
            ELSE SubSeq(rest, CHOOSE i \in nonws : \A j \in nonws : i <= j, Len(rest))
    ELSE text

\* re.sub removing a closing fence at the end of the text and the whitespace before it
RemoveTrailingFence(text) ==
    IF text # <<>> /\ text[Len(text)].k = "fence" /\ text[Len(text)].s = FenceBare
    THEN LET rest == SubSeq(text, 1, Len(text) - 1)
             nonws == {i \in 1..Len(rest) : rest[i].k # "ws"}
         IN IF nonws = {} THEN <<>>
            ELSE SubSeq(rest, 1, CHOOSE i \in nonws : \A j \in nonws : i >= j)
    ELSE text

\* json.loads: ok iff the text is one JSON value, whitespace around it allowed
NoJson == [ok |-> FALSE, isdict |-> FALSE, o |-> EmptyObj]
JsonLoads(text) ==
    LET u == Strip(text)
    IN IF Len(u) = 1 /\ u[1].k = "obj" THEN [ok |-> TRUE, isdict |-> TRUE, o |-> u[1].o]
       ELSE IF Len(u) = 1 /\ u[1].k = "arr" THEN [ok |-> TRUE, isdict |-> FALSE, o |-> EmptyObj]
       ELSE NoJson

\* Workflow._extract_json
Wf_extract_json(text) ==
    LET t1 == Strip(text)
        t2 == IF t1 # <<>> /\ t1[1].k = "fence"
              THEN RemoveTrailingFence(RemoveLeadingFence(t1))
              ELSE t1
    IN JsonLoads(t2)

\* the dict a decision is, as the entries the loop reads
DecisionOfObj(obj) == [action |-> ValToPy(obj.action),
                       agent_name |-> ValToPy(obj.agent_name),
                       task_input |-> ValToPy(obj.task_input),
                       final_answer |-> ValToPy(obj.final_answer)]

\* Workflow._parse_manager_decision
_parse_manager_decision(decision_text) ==
    LET decision_json == Wf_extract_json(decision_text)
    IN IF decision_json.ok /\ decision_json.isdict /\ decision_json.o # EmptyObj
       THEN DecisionOfObj(decision_json.o)
       ELSE IF ContainsLower(decision_text, CompleteWords)
       THEN [action |-> PLit("complete"), agent_name |-> PAbsent,
             task_input |-> PAbsent, final_answer |-> PStr(decision_text)]
       ELSE [action |-> PLit("unknown"), agent_name |-> PAbsent,
             task_input |-> PAbsent, final_answer |-> PAbsent]

\* --------------------------------------------------------------- workflow
\* agent objects; a3 has the same name as a1, m is the manager candidate,
\* s, t and u were built with sub-agents
AgentIds == {"a1", "a2", "a3", "m", "s", "t", "u"}
AgentName == [a \in AgentIds |->
                 IF a = "a2" THEN "beta" ELSE IF a = "m" THEN "boss"
                 ELSE IF a = "s" THEN "chief" ELSE IF a = "t" THEN "lead"
                 ELSE IF a = "u" THEN "head" ELSE "alpha"]
\* Agent.sub_agents of the agent objects
SubAgentsOf == [a \in AgentIds |->
                   IF a = "s" THEN <<"a1", "a2">>
                   ELSE IF a = "t" THEN <<"a2", "a3", "a1">>
                   ELSE IF a = "u" THEN <<"a2">> ELSE <<>>]
is_supervisor_MoreThanOne(a) == Len(SubAgentsOf[a]) > 1
\* Agent.is_supervisor
is_supervisor(a) == Len(SubAgentsOf[a]) > 0
NoAgent == "None"

\* agents lists workflows are constructed with
AgentLists == {<<"a1">>, <<"a1", "a2">>, <<"a1", "a2", "a3">>}

\* WorkflowMode values
WorkflowModes == {"sequential", "supervised", "parallel", "conditional"}

\* inputs run is called with
InputTexts == {StrText("x"), StrText("")}

\* what an invocation of an agent's run can do: return a text or raise
Ret(text) == [raised |-> FALSE, out |-> text, msg |-> ""]
Raise(m) == [raised |-> TRUE, out |-> <<>>, msg |-> m]
WorkerOutcomes == {Ret(StrText("out1")), Ret(StrText("out2")), Ret(StrText("")),
                   Raise("boom"), Raise("")}

\* manager responses: the decision JSON of the prompt, bare or fenced or
\* inside prose, other JSON values, and free text
CompleteObj == [EmptyObj EXCEPT !.action = JStr("complete"), !.final_answer = JStr("X")]
DelegateObj(n, t) == [EmptyObj EXCEPT !.action = JStr("delegate"), !.agent_name = n,
                                      !.task_input = t]
ManagerTexts ==
    { <<ObjTok(CompleteObj)>>,
      <<Ws, Fence(FenceJson), Ws, ObjTok(CompleteObj), Ws, Fence(FenceBare), Ws>>,
      <<ObjTok([EmptyObj EXCEPT !.action = JStr("complete")])>>,
      <<ObjTok([EmptyObj EXCEPT !.action = JStr("complete"), !.final_answer = JNull])>>,
      <<ObjTok(DelegateObj(JStr("alpha"), JStr("T1")))>>,
      <<Fence(FenceBare), Ws, ObjTok(DelegateObj(JStr("beta"), Abs)), Ws, Fence(FenceBare)>>,
      <<ObjTok(DelegateObj(JStr("beta"), JNull))>>,
      <<ObjTok(DelegateObj(JStr("ghost"), JStr("T1")))>>,
      <<ObjTok(DelegateObj(Abs, JStr("T1")))>>,
      <<Word("Sure:"), Ws, ObjTok(CompleteObj)>>,
      <<Word("All tasks COMPLETE")>>,
      <<Word("hello")>>,
      <<>>,
      <<ArrTok>>,
      <<ObjTok(EmptyObj)>>,
      <<ObjTok([EmptyObj EXCEPT !.action = JStr("wait")])>>,
      <<ObjTok([EmptyObj EXCEPT !.action = JStr("wait"),
                                !.reasoning = JStr("not complete yet")])>>,
      <<ObjTok([EmptyObj EXCEPT !.action = JNull])>>,
      <<ObjTok([EmptyObj EXCEPT !.reasoning = JStr("thinking")])>> }
ManagerOutcomes == {Ret(t) : t \in ManagerTexts} \cup {Raise("boom"), Raise("")}

\* str(e) of the exceptions the loop body itself raises
KeyErrorAction == "'action'"
AttrErrorUpper == "'NoneType' object has no attribute 'upper'"

\* WorkflowResult(success, final_output, agent_outputs, error)
WorkflowResult(success, final_output, outs, error) ==
    [success |-> success, final_output |-> final_output,
     agent_outputs |-> outs, error |-> error]
NoResult == WorkflowResult(FALSE, PAbsent, <<>>, PAbsent)

\* current_status values: the tag and the agent name formatted into it
Status(tag, name) == [tag |-> tag, name |-> name]

NoPrompt == [original_input |-> <<>>, available_agents |-> <<>>,
             current_status |-> Status("", PAbsent), completed_tasks |-> <<>>]
NoPending == [target |-> NoAgent, agent_name |-> PAbsent, task_input |-> PAbsent]

VARIABLES
    agents,            \* Workflow.agents
    mode,              \* Workflow.mode
    manager_agent,     \* Workflow.manager_agent
    max_iterations,    \* Workflow.max_iterations
    wpc,               \* where the run call is
    input_data,        \* run's argument
    agent_outputs,     \* local of _run_sequential / _run_supervised
    current_input,     \* local of _run_sequential
    step_i,            \* number of agents the sequential loop has completed
    iteration,         \* local of _run_supervised
    current_context,   \* local of _run_supervised
    pending,           \* the delegation the supervised loop is about to run
    result,            \* the WorkflowResult run returned
    invocations        \* agent.run calls made so far, in order

wfvars == <<agents, mode, manager_agent, max_iterations, wpc, input_data,
            agent_outputs, current_input, step_i, iteration, current_context,
            pending, result, invocations>>

VARIABLES
    tools,                 \* Agent.tools, as the tools' names
    agent_max_iterations,  \* Agent.max_iterations
    model_supported,       \* ModelFactory has a class for Agent.model
    apc,                   \* where the Agent.run call is
    agent_input,           \* Agent.run's argument
    conversation_history,  \* local of Agent.run
    loop_i,                \* the index the for loop of Agent.run is at
    tool_call,             \* local of Agent.run: the call about to be executed
    matched_tool,          \* index in tools of the tool _execute_tool is running
    agent_result,          \* what Agent.run returned, or str(e) of what it raised
    model_calls,           \* get_response calls made so far, in order
    tool_runs              \* tool.run calls made so far, in order

agvars == <<tools, agent_max_iterations, model_supported, apc, agent_input,
            conversation_history, loop_i, tool_call, matched_tool, agent_result,
            model_calls, tool_runs>>

VARIABLES
    wf_ctor,        \* a Workflow(...) call: its arguments and how it ended
    agent_ctor,     \* an Agent(...) call: its arguments and how it ended
    agent_model,    \* Agent.model
    agent_api_key,  \* Agent.api_key
    sub_agents,     \* Agent.sub_agents
    auth_cache,     \* Agent.auth_cache is an AuthCache object (not None)
    agent_prompt,   \* Agent.prompt
    new_prompt      \* a Prompt(...) call: its arguments, how it ended, the object

ctvars == <<wf_ctor, agent_ctor, agent_model, agent_api_key, sub_agents, auth_cache,
            agent_prompt, new_prompt>>

VARIABLES
    cur,         \* the thread that is running
    frames,      \* the stack frame of each thread's call of run
    alone_of,    \* the thread whose call is made again alone, 0 before that
    overlapped   \* the threads that were switched out in the middle of run

ccvars == <<cur, frames, alone_of, overlapped>>

VARIABLES
    prompt_obj,   \* a Prompt object whose methods are called
    prompt_ret,   \* what the last call on the Prompt object gave
    lookup,       \* the last call of an accessor of Agent and what it returned
    returned,     \* the WorkflowResult objects earlier run calls returned
    edits         \* how many add_agent and remove_agent calls were made

obvars == <<prompt_obj, prompt_ret, lookup, returned, edits>>

VARIABLES
    cache_file,   \* composio_auth_cache.json of the cache directory
    cache_pc,     \* where each caller's cache_toolkit_auth call is
    cache_data,   \* each caller's local cache_data
    cache_calls,  \* how many cache_toolkit_auth calls each caller has made
    authorized    \* for each key, the entry of the last call that finished

cavars == <<cache_file, cache_pc, cache_data, cache_calls, authorized>>

vars == <<wfvars, agvars, ctvars, ccvars, obvars, cavars>>

WfInitOk_ManagerMayBeMember(as, md, mgr) ==
    /\ as # <<>>
    /\ ~(md = "supervised" /\ mgr = NoAgent)
\* Workflow.__init__ accepts the configuration
WfInitOk(as, md, mgr) ==
    /\ as # <<>>
    /\ ~(md = "supervised" /\ mgr = NoAgent)
    /\ ~(md = "supervised" /\ \E i \in 1..Len(as) : as[i] = mgr)

EmptyContext == [original_input |-> <<>>, completed_tasks |-> <<>>,
                 available_agents |-> <<>>, current_status |-> Status("", PAbsent)]

WfInit ==
    /\ agents \in AgentLists
    /\ mode \in WorkflowModes
    /\ manager_agent \in {NoAgent, "m"}
    /\ WfInitOk(agents, mode, manager_agent)
    /\ max_iterations \in 0..MaxIter
    /\ wpc = "idle"
    /\ input_data = <<>>
    /\ agent_outputs = <<>>
    /\ current_input = <<>>
    /\ step_i = 0
    /\ iteration = 0
    /\ current_context = EmptyContext
    /\ pending = NoPending
    /\ result = NoResult
    /\ invocations = <<>>

\* an agent.run call as the log records it
Invocation(a, role, arg, prompt, oc) ==
    [agent |-> a, role |-> role, arg |-> arg, prompt |-> prompt,
     raised |-> oc.raised, out |-> oc.out, msg |-> oc.msg]

\* Workflow._create_manager_prompt: the context values the prompt embeds
_create_manager_prompt(context) ==
    [original_input |-> context.original_input,
     available_agents |-> context.available_agents,
     current_status |-> context.current_status,
     completed_tasks |-> context.completed_tasks]

_find_agent_by_name_LastMatch(as, name) ==
    LET hits == {i \in 1..Len(as) : PLit(AgentName[as[i]]) = name}
    IN IF hits = {} THEN NoAgent
       ELSE as[CHOOSE i \in hits : \A j \in hits : i >= j]

\* Workflow._find_agent_by_name
_find_agent_by_name(as, name) ==
    LET hits == {i \in 1..Len(as) : PLit(AgentName[as[i]]) = name}
    IN IF hits = {} THEN NoAgent
       ELSE as[CHOOSE i \in hits : \A j \in hits : i <= j]

\* one agent_outputs entry; a key the mode does not write is 0 / ""
SeqEntry_ZeroBasedStep(name, inp, out, step) ==
    [agent_name |-> name, input |-> inp, output |-> out, step |-> step - 1,
     iteration |-> 0, delegated_by |-> ""]
SeqEntry(name, inp, out, step) ==
    [agent_name |-> name, input |-> inp, output |-> out, step |-> step,
     iteration |-> 0, delegated_by |-> ""]
SupEntry_NoIteration(name, inp, out, it) ==
    [agent_name |-> name, input |-> inp, output |-> out, step |-> 0,
     iteration |-> 0, delegated_by |-> "manager"]
SupEntry(name, inp, out, it) ==
    [agent_name |-> name, input |-> inp, output |-> out, step |-> 0,
     iteration |-> it, delegated_by |-> "manager"]
TaskEntry_OutputAsInput(name, inp, out, it) ==
    [agent |-> name, input |-> out, output |-> out, iteration |-> it]
TaskEntry(name, inp, out, it) ==
    [agent |-> name, input |-> inp, output |-> out, iteration |-> it]

\* f"Unsupported workflow mode: {self.mode.value}"
UnsupportedMsg_NoModeName(md) == "Unsupported workflow mode"
UnsupportedMsg(md) == IF md = "parallel" THEN "Unsupported workflow mode: parallel"
                      ELSE "Unsupported workflow mode: conditional"

\* the WorkflowResult of the loop running out of iterations
ExhaustedResult(outs) ==
    WorkflowResult(FALSE, PLit("Workflow incomplete: maximum iterations reached"),
                   outs, PLit("Maximum iterations reached"))

SeqExcept_DropsOutputs(outs, m) ==
    [wpc |-> "done", result |-> WorkflowResult(FALSE, PLit(""), <<>>, PLit(m))]
SupExcept_Escapes(outs, m) == [wpc |-> "raised", result |-> NoResult]
FinalAnswer_RawText(decision, manager_decision) == PStr(manager_decision)
NotFoundStatus_Unknown(agent_name) == Status("unknown_action", PAbsent)

\* where run is and what it returned after an exception e with str(e) = m
\* reached the except clause of _run_sequential
SeqExcept(outs, m) == [wpc |-> "done", result |-> WorkflowResult(FALSE, PLit(""), outs, PLit(m))]

\* the same for the except clause of _run_supervised
SupExcept(outs, m) == [wpc |-> "done", result |-> WorkflowResult(FALSE, PLit(""), outs, PLit(m))]

\* decision.get("final_answer", manager_decision)
FinalAnswer(decision, manager_decision) ==
    IF decision.final_answer.ty = "absent" THEN PStr(manager_decision)
    ELSE decision.final_answer

\* current_status after a delegation to a name no agent has
NotFoundStatus(agent_name) == Status("agent_not_found", agent_name)

\* Workflow.run up to the first agent invocation or, when there is none, to
\* its return
Run(x) ==
    /\ wpc = "idle"
    /\ input_data' = x
    /\ agent_outputs' = <<>>
    /\ pending' = NoPending
    /\ \/ /\ mode = "sequential"
          /\ current_input' = x
          /\ step_i' = 0
          /\ IF agents = <<>>
             THEN /\ wpc' = "done"
                  /\ result' = WorkflowResult(TRUE, PStr(x), <<>>, PNone)
             ELSE /\ wpc' = "seq"
                  /\ result' = result
          /\ UNCHANGED <<iteration, current_context>>
       \/ /\ mode = "supervised"
          /\ iteration' = 0
          /\ current_context' =
                [original_input |-> x, completed_tasks |-> <<>>,
                 available_agents |-> [i \in 1..Len(agents) |-> AgentName[agents[i]]],
                 current_status |-> Status("starting", PAbsent)]
          /\ IF 0 < max_iterations
             THEN /\ wpc' = "sup_manager"
                  /\ result' = result
             ELSE /\ wpc' = "done"
                  /\ result' = ExhaustedResult(<<>>)
          /\ UNCHANGED <<current_input, step_i>>
       \/ /\ mode \notin {"sequential", "supervised"}
          /\ wpc' = "done"
          /\ result' = WorkflowResult(FALSE, PLit(""), <<>>, PLit(UnsupportedMsg(mode)))
          /\ UNCHANGED <<current_input, step_i, iteration, current_context>>
    /\ UNCHANGED <<agents, mode, manager_agent, max_iterations, invocations>>
    /\ UNCHANGED <<agvars, ctvars, ccvars, obvars, cavars>>

\* one pass of the for loop of _run_sequential: agent.run(current_input)
\* returns or raises; after the last agent the method returns
SeqStep(oc) ==
    /\ wpc = "seq"
    /\ LET agent == agents[step_i + 1]
           entry == SeqEntry(PLit(AgentName[agent]), PStr(current_input),
                             oc.out, step_i + 1)
       IN /\ invocations' = Append(invocations,
                 Invocation(agent, "worker", PStr(current_input), NoPrompt, oc))
          /\ IF oc.raised
             THEN /\ wpc' = SeqExcept(agent_outputs, oc.msg).wpc
                  /\ result' = SeqExcept(agent_outputs, oc.msg).result
                  /\ UNCHANGED <<agent_outputs, current_input, step_i>>
             ELSE /\ agent_outputs' = Append(agent_outputs, entry)
                  /\ current_input' = oc.out
                  /\ step_i' = step_i + 1
                  /\ IF step_i + 1 = Len(agents)
                     THEN /\ wpc' = "done"
                          /\ result' = WorkflowResult(TRUE, PStr(oc.out),
                                           Append(agent_outputs, entry), PNone)
                     ELSE /\ wpc' = "seq"
                          /\ result' = result
    /\ UNCHANGED <<agents, mode, manager_agent, max_iterations, input_data,
                   iteration, current_context, pending>>
    /\ UNCHANGED <<agvars, ctvars, ccvars, obvars, cavars>>

EndIteration_OffByOne(it, outs) ==
    IF it <= max_iterations
    THEN /\ wpc' = "sup_manager"
         /\ result' = result
    ELSE /\ wpc' = "done"
         /\ result' = ExhaustedResult(outs)

\* the end of a pass of the while loop of _run_supervised: the next pass
\* starts, or the loop is over and the method returns
EndIteration(it, outs) ==
    IF it < max_iterations
    THEN /\ wpc' = "sup_manager"
         /\ result' = result
    ELSE /\ wpc' = "done"
         /\ result' = ExhaustedResult(outs)

\* a pass of the while loop of _run_supervised from its top through the
\* manager call and the decision, up to the delegated worker's call
SupManager(oc) ==
    /\ wpc = "sup_manager"
    /\ iteration' = iteration + 1
    /\ invocations' = Append(invocations,
           Invocation(manager_agent, "manager", PAbsent,
                      _create_manager_prompt(current_context), oc))
    /\ LET decision == _parse_manager_decision(oc.out)
           agent_name == IF decision.agent_name.ty = "absent" THEN PNone
                         ELSE decision.agent_name
           task_input == IF decision.task_input.ty = "absent" THEN PStr(input_data)
                         ELSE decision.task_input
           final_answer == FinalAnswer(decision, oc.out)
           target_agent == _find_agent_by_name(agents, agent_name)
       IN IF oc.raised
          THEN /\ wpc' = SupExcept(agent_outputs, oc.msg).wpc
               /\ result' = SupExcept(agent_outputs, oc.msg).result
               /\ UNCHANGED <<current_context, pending>>
          ELSE IF decision.action.ty = "none"
          THEN /\ wpc' = SupExcept(agent_outputs, AttrErrorUpper).wpc
               /\ result' = SupExcept(agent_outputs, AttrErrorUpper).result
               /\ UNCHANGED <<current_context, pending>>
          ELSE IF decision.action.ty = "absent"
          THEN /\ wpc' = SupExcept(agent_outputs, KeyErrorAction).wpc
               /\ result' = SupExcept(agent_outputs, KeyErrorAction).result
               /\ UNCHANGED <<current_context, pending>>
          ELSE IF decision.action = PLit("complete")
          THEN /\ wpc' = "done"
               /\ result' = WorkflowResult(TRUE, final_answer, agent_outputs, PNone)
               /\ UNCHANGED <<current_context, pending>>
          ELSE IF decision.action = PLit("delegate")
          THEN IF target_agent # NoAgent
               THEN /\ wpc' = "sup_worker"
                    /\ pending' = [target |-> target_agent, agent_name |-> agent_name,
                                   task_input |-> task_input]
                    /\ UNCHANGED <<current_context, result>>
               ELSE /\ current_context' = [current_context EXCEPT
                           !.current_status = NotFoundStatus(agent_name)]
                    /\ EndIteration(iteration + 1, agent_outputs)
                    /\ UNCHANGED pending
          ELSE /\ current_context' = [current_context EXCEPT
                      !.current_status = Status("unknown_action", PAbsent)]
               /\ EndIteration(iteration + 1, agent_outputs)
               /\ UNCHANGED pending
    /\ UNCHANGED <<agents, mode, manager_agent, max_iterations, input_data,
                   agent_outputs, current_input, step_i>>
    /\ UNCHANGED <<agvars, ctvars, ccvars, obvars, cavars>>

\* the rest of a delegating pass of the while loop: target_agent.run(task_input)
\* returns or raises, and the bookkeeping after it
SupWorker(oc) ==
    /\ wpc = "sup_worker"
    /\ invocations' = Append(invocations,
           Invocation(pending.target, "worker", pending.task_input, NoPrompt, oc))
    /\ pending' = NoPending
    /\ IF oc.raised
       THEN /\ wpc' = SupExcept(agent_outputs, oc.msg).wpc
            /\ result' = SupExcept(agent_outputs, oc.msg).result
            /\ UNCHANGED <<agent_outputs, current_context>>
       ELSE /\ agent_outputs' = Append(agent_outputs,
                   SupEntry(pending.agent_name, pending.task_input, oc.out, iteration))
            /\ current_context' = [current_context EXCEPT
                   !.completed_tasks = Append(@,
                       TaskEntry(pending.agent_name, pending.task_input, oc.out, iteration)),
                   !.current_status = Status("completed_task_with", pending.agent_name)]
            /\ EndIteration(iteration, Append(agent_outputs,
                   SupEntry(pending.agent_name, pending.task_input, oc.out, iteration)))
    /\ UNCHANGED <<agents, mode, manager_agent, max_iterations, input_data,
                   current_input, step_i, iteration>>
    /\ UNCHANGED <<agvars, ctvars, ccvars, obvars, cavars>>

WfNext ==
    \/ \E x \in InputTexts : Run(x)
    \/ \E oc \in WorkerOutcomes : SeqStep(oc)
    \/ \E oc \in ManagerOutcomes : SupManager(oc)
    \/ \E oc \in WorkerOutcomes : SupWorker(oc)

\* ------------------------------------------------------------------ agent
\* tool lists agents are built with (tools are named; "search" is a
\* substring of "web_search")
ToolLists == {<<>>, <<"web_search", "search">>, <<"calc">>}

\* tool names model responses ask for
RequestedNames == {"search", "Search", "web_search", "calc", "sea", "nothing"}

\* str.lower() on the tool-name vocabulary
Lower(n) == IF n = "Search" THEN "search" ELSE n

\* a in b for lower-cased names of the vocabulary
IsSubstring(a, b) ==
    \/ a = b
    \/ a = "search" /\ b = "web_search"
    \/ a = "sea" /\ b \in {"search", "web_search"}

\* tool_call objects in model responses
ToolCallObj(tc) == [EmptyObj EXCEPT !.tool_call = tc]

\* model responses: final answers, tool calls bare, fenced and inside
\* prose, malformed tool calls, a connector call, failure phrases
AgentResponses ==
    { StrText("final answer"),
      StrText(""),
      StrText("No error found"),
      StrText("Tool Failed: timeout"),
      <<ObjTok([EmptyObj EXCEPT !.reasoning = JStr("Error executing tool 'x'")])>>,
      <<ObjTok([EmptyObj EXCEPT !.reasoning = JStr("thinking")])>>,
      <<ObjTok(ToolCallObj(ToolCallDict(JStr("search"), JStr("q"))))>>,
      <<Word("Sure:"), Ws, ObjTok(ToolCallObj(ToolCallDict(JStr("calc"), JStr("q"))))>>,
      <<Fence(FenceJson), Ws, ObjTok(ToolCallObj(ToolCallDict(JStr("Search"), JNull))),
        Ws, Fence(FenceBare)>>,
      <<ObjTok(ToolCallObj(ToolCallDict(JStr("sea"), JStr("q"))))>>,
      <<ObjTok(ToolCallObj(ToolCallDict(JStr("nothing"), JStr("q"))))>>,
      <<ObjTok(ToolCallObj(ToolCallDict(JNull, JStr("q"))))>>,
      <<ObjTok(ToolCallObj(ToolCallDict(JStr("search"), Abs)))>>,
      <<ObjTok(ToolCallObj(ToolCallDict(Abs, JStr("q"))))>>,
      <<ObjTok(ToolCallObj(ToolCallOther))>>,
      <<ObjTok(ToolCallObj(ToolCallDict(Abs, Abs)))>>,
      <<ObjTok(ToolCallObj(ToolCallStr("search")))>>,
      <<ObjTok(ToolCallObj(ToolCallNull))>>,
      <<ObjTok(ToolCallObj(ToolCallDict(JStr("search"), JStr("q")))), Ws,
        ObjTok(ToolCallObj(ToolCallDict(JStr("calc"), JStr("q"))))>>,
      <<ObjTok([EmptyObj EXCEPT !.connector_call =
                   ConnectorCallDict(JStr("github"), JStr("list"), JStr("q"))])>> }
ModelOutcomes == {Ret(t) : t \in AgentResponses} \cup {Raise("model down")}

\* what tool.run can do
ToolOutcomes == {Ret(StrText("r1")), Raise("tool boom")}

\* the fixed answer of a loop that ran out of iterations
ExhaustedMsg == "Maximum iterations reached. Please try rephrasing your request."

\* str(e) of the exceptions run itself raises
UnsupportedModelMsg == "Model 'm' is not supported."
KeyErrorToolName == "'tool_name'"
KeyErrorToolInput == "'tool_input'"
TypeErrorIndex == "string indices must be integers"
AttrErrorLower == "'NoneType' object has no attribute 'lower'"
ToolNotFoundMsg == "Tool not found. Available tools: [...]"

\* conversation_history entries
UserEntry(x) == [k |-> "user", t |-> x, tool_name |-> Abs, tool_input |-> Abs, msg |-> ""]
AssistantEntry_NoText(r) ==
    [k |-> "assistant", t |-> <<>>, tool_name |-> Abs, tool_input |-> Abs, msg |-> ""]
AssistantEntry(r) == [k |-> "assistant", t |-> r, tool_name |-> Abs, tool_input |-> Abs,
                      msg |-> ""]
CallEntry_NoInput(n, i) ==
    [k |-> "call", t |-> <<>>, tool_name |-> n, tool_input |-> Abs, msg |-> ""]
CallEntry(n, i) == [k |-> "call", t |-> <<>>, tool_name |-> n, tool_input |-> i, msg |-> ""]
ResultEntry(r) == [k |-> "result", t |-> r, tool_name |-> Abs, tool_input |-> Abs,
                   msg |-> ""]
ErrorEntry(n, m) == [k |-> "error", t |-> <<>>, tool_name |-> n, tool_input |-> Abs,
                     msg |-> m]

\* Agent._build_basic_prompt / _build_prompt_with_history: what the prompt embeds
BasicPrompt(x) == [kind |-> "basic", input |-> x, history |-> <<>>]
HistoryPrompt(h) == [kind |-> "history", input |-> <<>>, history |-> h]

\* Agent._extract_json: the first "{" to the last "}" of the text, decoded
Ag_extract_json(text) ==
    LET objs == {i \in 1..Len(text) : text[i].k = "obj"}
    IN IF Cardinality(objs) = 1
       THEN [ok |-> TRUE, isdict |-> TRUE, o |-> text[CHOOSE i \in objs : TRUE].o]
       ELSE NoJson

\* Agent._extract_tool_call; None is ToolCallNull
_extract_tool_call(response) ==
    LET response_json == Ag_extract_json(response)
    IN IF response_json.ok /\ response_json.isdict
          /\ response_json.o.tool_call.ty # "absent"
       THEN response_json.o.tool_call
       ELSE ToolCallNull

\* not tool_call
Falsy(tc) ==
    \/ tc.ty \in {"null", "absent"}
    \/ tc.ty = "dict" /\ tc.tool_name.ty = "absent" /\ tc.tool_input.ty = "absent"
                      /\ ~tc.extra
    \/ tc.ty = "str" /\ tc.s = ""

HasFailurePhrase_AnyError(response) ==
    ContainsLower(response, FailWords \cup {"No error found"})
\* "tool failed" in response.lower() or "error executing tool" in response.lower()
HasFailurePhrase(response) == ContainsLower(response, FailWords)

BasicMode_Never(ts) == FALSE
\* not self.tools
BasicMode(ts) == ts = <<>>

_execute_tool_FuzzyFirst(ts, tool_name) ==
    LET partial == {i \in 1..Len(ts) :
                       \/ IsSubstring(Lower(tool_name), Lower(ts[i]))
                       \/ IsSubstring(Lower(ts[i]), Lower(tool_name))}
    IN IF partial # {} THEN CHOOSE i \in partial : \A j \in partial : i <= j
       ELSE 0
\* Agent._execute_tool up to tool.run: the index of the tool that is run,
\* 0 when the method raises ValueError instead
_execute_tool(ts, tool_name) ==
    LET exact == {i \in 1..Len(ts) : ts[i] = tool_name}
        partial == {i \in 1..Len(ts) :
                       \/ IsSubstring(Lower(tool_name), Lower(ts[i]))
                       \/ IsSubstring(Lower(ts[i]), Lower(tool_name))}
    IN IF exact # {} THEN CHOOSE i \in exact : \A j \in exact : i <= j
       ELSE IF partial # {} THEN CHOOSE i \in partial : \A j \in partial : i <= j
       ELSE 0

AgInit ==
    /\ tools \in ToolLists
    /\ agent_max_iterations \in 0..MaxIter
    /\ model_supported \in BOOLEAN
    /\ apc = "idle"
    /\ agent_input = <<>>
    /\ conversation_history = <<>>
    /\ loop_i = 0
    /\ tool_call = ToolCallNull
    /\ matched_tool = 0
    /\ agent_result = PAbsent
    /\ model_calls = <<>>
    /\ tool_runs = <<>>

\* the agent object of the workflow specification: no run call is made on it
AgentParked ==
    /\ tools = <<>>
    /\ agent_max_iterations = 0
    /\ model_supported = TRUE
    /\ apc = "idle"
    /\ agent_input = <<>>
    /\ conversation_history = <<>>
    /\ loop_i = 0
    /\ tool_call = ToolCallNull
    /\ matched_tool = 0
    /\ agent_result = PAbsent
    /\ model_calls = <<>>
    /\ tool_runs = <<>>

\* the workflow object of the agent specification: no run call is made on it
WfParked ==
    /\ agents = <<"a1">>
    /\ mode = "sequential"
    /\ manager_agent = NoAgent
    /\ max_iterations = 0
    /\ wpc = "idle"
    /\ input_data = <<>>
    /\ agent_outputs = <<>>
    /\ current_input = <<>>
    /\ step_i = 0
    /\ iteration = 0
    /\ current_context = EmptyContext
    /\ pending = NoPending
    /\ result = NoResult
    /\ invocations = <<>>

\* a get_response call as the log records it
ModelCall(prompt, oc) == [prompt |-> prompt, raised |-> oc.raised, out |-> oc.out,
                          msg |-> oc.msg]
\* a tool.run call as the log records it
ToolRun(ix, inp, oc) == [tool |-> ix, input |-> inp, raised |-> oc.raised,
                         out |-> oc.out, msg |-> oc.msg]

\* Agent.run up to the first get_response call
AgentRun(x) ==
    /\ apc = "idle"
    /\ agent_input' = x
    /\ IF ~model_supported
       THEN /\ apc' = "raised"
            /\ agent_result' = PLit(UnsupportedModelMsg)
            /\ UNCHANGED <<conversation_history, loop_i>>
       ELSE IF BasicMode(tools)
       THEN /\ apc' = "basic"
            /\ UNCHANGED <<agent_result, conversation_history, loop_i>>
       ELSE /\ conversation_history' = <<UserEntry(x)>>
            /\ loop_i' = 0
            /\ IF 0 < agent_max_iterations
               THEN /\ apc' = "think"
                    /\ UNCHANGED agent_result
               ELSE /\ apc' = "returned"
                    /\ agent_result' = PLit(ExhaustedMsg)
    /\ UNCHANGED <<tools, agent_max_iterations, model_supported, tool_call,
                   matched_tool, model_calls, tool_runs>>
    /\ UNCHANGED <<wfvars, ctvars, ccvars, obvars, cavars>>

\* basic mode: the one get_response call and the return of its text
BasicCall(oc) ==
    /\ apc = "basic"
    /\ model_calls' = Append(model_calls, ModelCall(BasicPrompt(agent_input), oc))
    /\ IF oc.raised
       THEN /\ apc' = "raised"
            /\ agent_result' = PLit(oc.msg)
       ELSE /\ apc' = "returned"
            /\ agent_result' = PStr(oc.out)
    /\ UNCHANGED <<tools, agent_max_iterations, model_supported, agent_input,
                   conversation_history, loop_i, tool_call, matched_tool, tool_runs>>
    /\ UNCHANGED <<wfvars, ctvars, ccvars, obvars, cavars>>

AfterIteration_OneMore(h) ==
    /\ conversation_history' = h
    /\ IF loop_i + 1 < agent_max_iterations + 1
       THEN /\ loop_i' = loop_i + 1
            /\ apc' = "think"
            /\ UNCHANGED agent_result
       ELSE /\ loop_i' = loop_i
            /\ apc' = "returned"
            /\ agent_result' = PLit(ExhaustedMsg)

\* the end of a pass of the for loop of Agent.run with history h: the next
\* pass starts, or the loop is over and run returns the fixed message
AfterIteration(h) ==
    /\ conversation_history' = h
    /\ IF loop_i + 1 < agent_max_iterations
       THEN /\ loop_i' = loop_i + 1
            /\ apc' = "think"
            /\ UNCHANGED agent_result
       ELSE /\ loop_i' = loop_i
            /\ apc' = "returned"
            /\ agent_result' = PLit(ExhaustedMsg)

\* run ends with the exception whose str is m
AgentRaises(m) ==
    /\ apc' = "raised"
    /\ agent_result' = PLit(m)
    /\ UNCHANGED <<conversation_history, loop_i>>

ExceptToolError_ReplacesLast(h, n, m) ==
    AfterIteration([h EXCEPT ![Len(h)] = ErrorEntry(n, m)])
ExceptToolError_Propagates(h, n, m) ==
    /\ apc' = "raised"
    /\ agent_result' = PLit(m)
    /\ UNCHANGED <<conversation_history, loop_i>>
\* the except clause of the loop's try with history h: the failure of the
\* call of tool name n with str(e) = m becomes a history entry and the pass ends
ExceptToolError(h, n, m) == AfterIteration(Append(h, ErrorEntry(n, m)))

\* a pass of the for loop of Agent.run from get_response through the
\* extraction of the tool call up to tool.run, or to the end of the pass
\* when no tool is run
Think(oc) ==
    /\ apc = "think"
    /\ model_calls' = Append(model_calls,
                             ModelCall(HistoryPrompt(conversation_history), oc))
    /\ LET response == oc.out
           tc == _extract_tool_call(response)
           ix == _execute_tool(tools, tc.tool_name.s)
       IN IF oc.raised
          THEN AgentRaises(oc.msg) /\ UNCHANGED <<tool_call, matched_tool>>
          ELSE IF response = <<>>
          THEN /\ AfterIteration(Append(conversation_history, AssistantEntry(response)))
               /\ UNCHANGED <<tool_call, matched_tool>>
          ELSE IF Falsy(tc)
          THEN IF HasFailurePhrase(response)
               THEN /\ AfterIteration(Append(conversation_history, AssistantEntry(response)))
                    /\ UNCHANGED <<tool_call, matched_tool>>
               ELSE /\ apc' = "returned"
                    /\ agent_result' = PStr(response)
                    /\ UNCHANGED <<conversation_history, loop_i, tool_call, matched_tool>>
          ELSE IF tc.ty # "dict"
          THEN AgentRaises(TypeErrorIndex) /\ UNCHANGED <<tool_call, matched_tool>>
          ELSE IF tc.tool_name.ty = "absent"
          THEN AgentRaises(KeyErrorToolName) /\ UNCHANGED <<tool_call, matched_tool>>
          ELSE IF tc.tool_input.ty = "absent"
          THEN /\ ExceptToolError(conversation_history, tc.tool_name, KeyErrorToolInput)
               /\ UNCHANGED <<tool_call, matched_tool>>
          ELSE IF tc.tool_name.ty # "str"
          THEN /\ ExceptToolError(conversation_history, tc.tool_name, AttrErrorLower)
               /\ UNCHANGED <<tool_call, matched_tool>>
          ELSE IF ix = 0
          THEN /\ ExceptToolError(conversation_history, tc.tool_name, ToolNotFoundMsg)
               /\ UNCHANGED <<tool_call, matched_tool>>
          ELSE /\ apc' = "act"
               /\ tool_call' = tc
               /\ matched_tool' = ix
               /\ UNCHANGED <<conversation_history, loop_i, agent_result>>
    /\ UNCHANGED <<tools, agent_max_iterations, model_supported, agent_input, tool_runs>>
    /\ UNCHANGED <<wfvars, ctvars, ccvars, obvars, cavars>>

\* the rest of a pass that runs a tool: tool.run returns or raises, and the
\* history entries written after it
Act(oc) ==
    /\ apc = "act"
    /\ tool_runs' = Append(tool_runs, ToolRun(matched_tool, tool_call.tool_input, oc))
    /\ IF oc.raised
       THEN ExceptToolError(conversation_history, tool_call.tool_name, oc.msg)
       ELSE AfterIteration(conversation_history \o
                           <<CallEntry(tool_call.tool_name, tool_call.tool_input),
                             ResultEntry(oc.out)>>)
    /\ tool_call' = ToolCallNull
    /\ matched_tool' = 0
    /\ UNCHANGED <<tools, agent_max_iterations, model_supported, agent_input,
                   model_calls>>
    /\ UNCHANGED <<wfvars, ctvars, ccvars, obvars, cavars>>

AgNext ==
    \/ \E x \in InputTexts : AgentRun(x)
    \/ \E oc \in ModelOutcomes : BasicCall(oc)
    \/ \E oc \in ModelOutcomes : Think(oc)
    \/ \E oc \in ToolOutcomes : Act(oc)
\* ---------------------------------------------------------- construction
\* bool(x) of an Optional[str] argument
Truthy(v) == v.ty = "str" /\ v.t # <<>>

\* an argument left out of the call, and one given as v
LeftOut == [given |-> FALSE, v |-> 0]
Given(n) == [given |-> TRUE, v |-> n]
IntArgs == {LeftOut} \cup {Given(n) : n \in 0..MaxIter}

\* the default of Agent's max_iterations parameter
DefaultMaxIterations == 10
\* the default of Workflow's max_iterations parameter
WfDefaultMaxIterations == 10

\* ---- Prompt
PromptEitherMsg == "Either template_name or raw_prompt must be provided."
PromptBothMsg == "Provide only one of template_name or raw_prompt, not both."
DefaultTemplate == "agent_prompt_template"

\* a Prompt object: template_name, raw_prompt, tools (the tools' names)
PromptObj(tn, rp, ts) == [template_name |-> tn, raw_prompt |-> rp, tools |-> ts]
NoPromptObj == PromptObj(PAbsent, PAbsent, <<>>)

\* what Prompt is called with for template_name and for raw_prompt
TemplateArgs == {PNone, PStr(<<>>), PLit(DefaultTemplate)}
RawPromptArgs == {PNone, PStr(<<>>), PLit("You are a helpful agent.")}

PromptCheck_AllowsBoth(tn, rp) ==
    IF ~Truthy(tn) /\ ~Truthy(rp) THEN PromptEitherMsg ELSE ""
\* the two checks of Prompt.__init__: the message of the ValueError raised,
\* "" when none is
PromptCheck(tn, rp) ==
    IF ~Truthy(tn) /\ ~Truthy(rp) THEN PromptEitherMsg
    ELSE IF Truthy(tn) /\ Truthy(rp) THEN PromptBothMsg
    ELSE ""

PromptCall(st, m, tn, rp, obj) ==
    [state |-> st, msg |-> m, template_name |-> tn, raw_prompt |-> rp, obj |-> obj]
NoPromptCall == PromptCall("none", "", PAbsent, PAbsent, NoPromptObj)

\* Prompt.__init__
Prompt__init__(tn, rp) ==
    /\ new_prompt.state = "none"
    /\ new_prompt' =
          IF PromptCheck(tn, rp) # ""
          THEN PromptCall("raised", PromptCheck(tn, rp), tn, rp, NoPromptObj)
          ELSE PromptCall("ok", "", tn, rp, PromptObj(tn, rp, <<>>))
    /\ UNCHANGED <<wf_ctor, agent_ctor, agent_model, agent_api_key, sub_agents,
                   auth_cache, agent_prompt>>
    /\ UNCHANGED <<wfvars, agvars, ccvars, obvars, cavars>>

\* ---- Agent
ModelMsg == "Model must be specified."
ApiKeyMsg == "API key must be specified."
CustomToolMsg == "Custom tools must be instances of CustomToolWrapper"
MakedirsMsg == "[Errno 13] Permission denied: './cache'"

\* an element of custom_tools: its name, and whether it is a CustomToolWrapper
CustomTool(n, w) == [name |-> n, wrapper |-> w]
ToolNames(ct) == [i \in 1..Len(ct) |-> ct[i].name]

\* what Agent is called with; composio_api_key and composio_toolkits are
\* left out, so no Composio client is made
ModelArgs == {PNone, PStr(<<>>), PLit("gemini-2.5-flash")}
ApiKeyArgs == {PNone, PStr(<<>>), PLit("test_key")}
CustomToolArgs == {<<>>, <<CustomTool("calc", TRUE)>>,
                   <<CustomTool("calc", TRUE), CustomTool("raw", FALSE)>>}
SubAgentArgs == {[given |-> FALSE, v |-> <<>>], [given |-> TRUE, v |-> <<>>],
                 [given |-> TRUE, v |-> <<"a1", "a2">>]}
AgentArgs == [model : ModelArgs, api_key : ApiKeyArgs, custom_tools : CustomToolArgs,
              prompt_given : BOOLEAN, max_iterations : IntArgs,
              cache_auth : {LeftOut, [given |-> TRUE, v |-> 0]},
              sub_agents : SubAgentArgs]
\* cache_auth: left out it is True, given it is False
CacheAuth(a) == ~a.cache_auth.given
NoAgentArgs == [model |-> PAbsent, api_key |-> PAbsent, custom_tools |-> <<>>,
                prompt_given |-> FALSE, max_iterations |-> LeftOut,
                cache_auth |-> LeftOut, sub_agents |-> [given |-> FALSE, v |-> <<>>]]

AgentCheck_ApiKeyFirst(model, api_key) ==
    IF ~Truthy(api_key) THEN ApiKeyMsg
    ELSE IF ~Truthy(model) THEN ModelMsg
    ELSE ""
\* the two checks Agent.__init__ starts with: the message of the ValueError
\* raised, "" when none is
AgentCheck(model, api_key) ==
    IF ~Truthy(model) THEN ModelMsg
    ELSE IF ~Truthy(api_key) THEN ApiKeyMsg
    ELSE ""

AgentCall(st, m, a, mk) == [state |-> st, msg |-> m, args |-> a, makedirs_ok |-> mk]
NoAgentCall == AgentCall("none", "", NoAgentArgs, TRUE)

\* Agent.__init__ called with the arguments a; makedirs_ok is whether
\* os.makedirs of the cache directory (AuthCache.__init__) succeeds
Agent__init__(a, makedirs_ok) ==
    /\ agent_ctor.state = "none"
    /\ a.prompt_given => new_prompt.state = "ok"
    /\ LET ts == ToolNames(a.custom_tools)
           err == IF AgentCheck(a.model, a.api_key) # ""
                  THEN AgentCheck(a.model, a.api_key)
                  ELSE IF CacheAuth(a) /\ ~makedirs_ok THEN MakedirsMsg
                  ELSE IF \E i \in 1..Len(a.custom_tools) : ~a.custom_tools[i].wrapper
                  THEN CustomToolMsg
                  ELSE IF ~a.prompt_given THEN PromptCheck(PLit(DefaultTemplate), PNone)
                  ELSE ""
       IN IF err # ""
          THEN /\ agent_ctor' = AgentCall("raised", err, a, makedirs_ok)
               /\ UNCHANGED <<agent_model, agent_api_key, sub_agents, auth_cache,
                              agent_prompt, new_prompt, tools, agent_max_iterations, apc>>
          ELSE /\ agent_ctor' = AgentCall("ok", "", a, makedirs_ok)
               /\ agent_model' = a.model
               /\ agent_api_key' = a.api_key
               /\ agent_max_iterations' = IF a.max_iterations.given
                                          THEN a.max_iterations.v
                                          ELSE DefaultMaxIterations
               /\ sub_agents' = a.sub_agents.v
               /\ auth_cache' = CacheAuth(a)
               /\ tools' = ts
               /\ apc' = "idle"
               /\ IF a.prompt_given
                  THEN /\ agent_prompt' = [new_prompt.obj EXCEPT !.tools = ts]
                       /\ new_prompt' = [new_prompt EXCEPT !.obj.tools = ts]
                  ELSE /\ agent_prompt' = PromptObj(PLit(DefaultTemplate), PNone, ts)
                       /\ UNCHANGED new_prompt
    /\ UNCHANGED <<model_supported, agent_input, conversation_history, loop_i,
                   tool_call, matched_tool, agent_result, model_calls, tool_runs>>
    /\ UNCHANGED <<wfvars, wf_ctor, ccvars, obvars, cavars>>

\* ---- Workflow
AgentsRequiredMsg == "At least one agent must be provided."
ManagerRequiredMsg == "Manager agent is required for supervised mode."
ManagerInAgentsMsg == "Manager agent should not be in the agents list."
\* str of the ValueError of WorkflowMode(mode)
NotAModeMsg(md) == IF md = "hierarchical" THEN "'hierarchical' is not a valid WorkflowMode"
                   ELSE "'bogus' is not a valid WorkflowMode"

\* what Workflow is called with
CtorAgentLists == AgentLists \cup {<<>>, <<"m">>, <<"a1", "m">>, <<"s", "a1">>}
ModeArgs == WorkflowModes \cup {"hierarchical", "bogus"}
ManagerArgs == {NoAgent, "m", "s"}

\* the message of the ValueError of a configuration Workflow.__init__ rejects
WfInitMsg(as, md, mgr) ==
    IF as = <<>> THEN AgentsRequiredMsg
    ELSE IF md = "supervised" /\ mgr = NoAgent THEN ManagerRequiredMsg
    ELSE ManagerInAgentsMsg

WfCall(st, m, as, md, mgr, mi) ==
    [state |-> st, msg |-> m, agents |-> as, mode |-> md, manager_agent |-> mgr,
     max_iterations |-> mi]
NoWfCall == WfCall("none", "", <<>>, "", NoAgent, LeftOut)

\* Workflow.__init__
Workflow__init__(as, md, mgr, mi) ==
    /\ wf_ctor.state = "none"
    /\ LET err == IF ~WfInitOk(as, md, mgr) THEN WfInitMsg(as, md, mgr)
                  ELSE IF md \notin WorkflowModes THEN NotAModeMsg(md)
                  ELSE ""
       IN IF err # ""
          THEN /\ wf_ctor' = WfCall("raised", err, as, md, mgr, mi)
               /\ UNCHANGED <<agents, mode, manager_agent, max_iterations, wpc>>
          ELSE /\ wf_ctor' = WfCall("ok", "", as, md, mgr, mi)
               /\ agents' = as
               /\ mode' = md
               /\ manager_agent' = mgr
               /\ max_iterations' = IF mi.given THEN mi.v ELSE WfDefaultMaxIterations
               /\ wpc' = "idle"
    /\ UNCHANGED <<input_data, agent_outputs, current_input, step_i, iteration,
                   current_context, pending, result, invocations>>
    /\ UNCHANGED <<agvars, agent_ctor, agent_model, agent_api_key, sub_agents,
                   auth_cache, agent_prompt, new_prompt, ccvars, obvars, cavars>>

\* no constructor call is traced
CtorParked ==
    /\ wf_ctor = NoWfCall
    /\ agent_ctor = NoAgentCall
    /\ agent_model = PAbsent
    /\ agent_api_key = PAbsent
    /\ sub_agents = <<>>
    /\ auth_cache = FALSE
    /\ agent_prompt = NoPromptObj
    /\ new_prompt = NoPromptCall

\* no Workflow object yet
WfUnbuilt ==
    /\ agents = <<>>
    /\ mode = ""
    /\ manager_agent = NoAgent
    /\ max_iterations = 0
    /\ wpc = "unbuilt"
    /\ input_data = <<>>
    /\ agent_outputs = <<>>
    /\ current_input = <<>>
    /\ step_i = 0
    /\ iteration = 0
    /\ current_context = EmptyContext
    /\ pending = NoPending
    /\ result = NoResult
    /\ invocations = <<>>

\* no Agent object yet
AgUnbuilt ==
    /\ tools = <<>>
    /\ agent_max_iterations = 0
    /\ model_supported = TRUE
    /\ apc = "unbuilt"
    /\ agent_input = <<>>
    /\ conversation_history = <<>>
    /\ loop_i = 0
    /\ tool_call = ToolCallNull
    /\ matched_tool = 0
    /\ agent_result = PAbsent
    /\ model_calls = <<>>
    /\ tool_runs = <<>>

\* ---------------------------------------------------------- concurrency
\* the worker threads of TvaraServer.executor that call run on the one
\* executable, each for one request
Threads == {1, 2}
\* a later call of run made while no other call is running
Alone == 3

\* the local variables of the call of run the running thread is in, with
\* what the call has seen of the model, the tools and the agents
LocalsNow ==
    [apc |-> apc, agent_input |-> agent_input,
     conversation_history |-> conversation_history, loop_i |-> loop_i,
     tool_call |-> tool_call, matched_tool |-> matched_tool,
     agent_result |-> agent_result, model_calls |-> model_calls,
     tool_runs |-> tool_runs,
     wpc |-> wpc, input_data |-> input_data, agent_outputs |-> agent_outputs,
     current_input |-> current_input, step_i |-> step_i, iteration |-> iteration,
     current_context |-> current_context, pending |-> pending, result |-> result,
     invocations |-> invocations]

\* the call of run has ended, and it is in progress
Finished(f) == f.apc \in {"returned", "raised"} \/ f.wpc = "done"
InProgress(f) == ~Finished(f) /\ (f.apc \in {"basic", "think", "act"}
                                  \/ f.wpc \in {"seq", "sup_manager", "sup_worker"})

StackLocal_OnObject(own, left) == left
\* the value a thread resumes with for a variable run declares as a local:
\* the one of its own frame (own), not the one the thread that ran last
\* left behind (left)
StackLocal(own, left) == own

\* the thread whose frame is f goes on
Resume(f) ==
    /\ apc' = f.apc
    /\ agent_input' = f.agent_input
    /\ conversation_history' = StackLocal(f.conversation_history, conversation_history)
    /\ loop_i' = f.loop_i
    /\ tool_call' = f.tool_call
    /\ matched_tool' = f.matched_tool
    /\ agent_result' = f.agent_result
    /\ model_calls' = f.model_calls
    /\ tool_runs' = f.tool_runs
    /\ wpc' = f.wpc
    /\ input_data' = f.input_data
    /\ agent_outputs' = StackLocal(f.agent_outputs, agent_outputs)
    /\ current_input' = f.current_input
    /\ step_i' = f.step_i
    /\ iteration' = f.iteration
    /\ current_context' = StackLocal(f.current_context, current_context)
    /\ pending' = f.pending
    /\ result' = f.result
    /\ invocations' = f.invocations
    /\ UNCHANGED <<tools, agent_max_iterations, model_supported, agents, mode,
                   manager_agent, max_iterations>>
    /\ UNCHANGED <<ctvars, obvars, cavars>>

\* the interpreter switches from the running thread to thread t
Switch(t) ==
    /\ cur \in Threads /\ t # cur
    /\ ~Finished(frames[t])
    /\ frames' = [frames EXCEPT ![cur] = LocalsNow]
    /\ overlapped' = IF InProgress(LocalsNow) THEN overlapped \cup {cur} ELSE overlapped
    /\ cur' = t
    /\ UNCHANGED alone_of
    /\ Resume(frames[t])

\* both calls have ended; run is called once more, by itself, with what
\* the call of thread r was given
CallAlone(r) ==
    /\ cur \in Threads
    /\ Finished(LocalsNow)
    /\ \A t \in Threads \ {cur} : Finished(frames[t])
    /\ frames' = [frames EXCEPT ![cur] = LocalsNow]
    /\ cur' = Alone
    /\ alone_of' = r
    /\ UNCHANGED overlapped
    /\ Resume(frames[Alone])

\* the call made alone is given what the call of thread alone_of was given
OutcomeOf(e) == [raised |-> e.raised, out |-> e.out, msg |-> e.msg]
\* the input of the request thread t serves
RequestInput == [t \in Threads |-> IF t = 1 THEN StrText("x") ELSE StrText("")]
SameInput(x) ==
    IF cur = Alone
    THEN x = frames[alone_of].agent_input /\ x = frames[alone_of].input_data
    ELSE x = RequestInput[cur]
SameResponse(oc, mine, theirs) ==
    cur = Alone => /\ Len(mine) < Len(theirs)
                   /\ oc = OutcomeOf(theirs[Len(mine) + 1])

\* responses of the model, the tools, the manager and the workers
ConcModelOutcomes ==
    { Ret(StrText("final answer")),
      Ret(<<ObjTok(ToolCallObj(ToolCallDict(JStr("search"), JStr("q"))))>>),
      Raise("model down") }
ConcManagerOutcomes ==
    { Ret(<<ObjTok(CompleteObj)>>),
      Ret(<<ObjTok(DelegateObj(JStr("alpha"), JStr("t")))>>),
      Raise("boom") }
ConcWorkerOutcomes == {Ret(StrText("out1")), Raise("boom")}

\* the executable is an Agent, and it is a Workflow
ConcAgent ==
    /\ tools \in {<<>>, <<"web_search", "search">>}
    /\ agent_max_iterations \in 0..MaxIter
    /\ model_supported = TRUE
    /\ apc = "idle"
    /\ agent_input = <<>>
    /\ conversation_history = <<>>
    /\ loop_i = 0
    /\ tool_call = ToolCallNull
    /\ matched_tool = 0
    /\ agent_result = PAbsent
    /\ model_calls = <<>>
    /\ tool_runs = <<>>
ConcWorkflow ==
    /\ agents = <<"a1", "a2">>
    /\ mode \in {"sequential", "supervised"}
    /\ manager_agent = "m"
    /\ max_iterations \in 0..MaxIter
    /\ wpc = "idle"
    /\ input_data = <<>>
    /\ agent_outputs = <<>>
    /\ current_input = <<>>
    /\ step_i = 0
    /\ iteration = 0
    /\ current_context = EmptyContext
    /\ pending = NoPending
    /\ result = NoResult
    /\ invocations = <<>>

\* no thread is traced
ConcParked ==
    /\ cur = 1
    /\ frames = <<>>
    /\ alone_of = 0
    /\ overlapped = {}

\* ------------------------------------------------- calls on built objects
\* ---- Prompt.set_tools and Prompt.render
\* tool objects a Prompt is given: calc has a parameters schema, date's
\* schema is the empty dict, echo has no get_parameters_schema method
PromptTools == {"calc", "date", "echo"}
ToolDescription == [t \in PromptTools |->
                       IF t = "calc" THEN "Evaluates arithmetic"
                       ELSE IF t = "date" THEN "Gives the date" ELSE ""]
HasSchemaMethod == [t \in PromptTools |-> t # "echo"]
\* a dict, as the sequence of its items
EmptyDict == <<>>
ParametersSchema == [t \in PromptTools |->
                        IF t = "calc" THEN <<"type: object", "properties: expression">>
                        ELSE EmptyDict]
\* the tools lists set_tools is called with
PromptToolLists == {<<>>, <<"calc">>, <<"date">>, <<"echo">>, <<"calc", "date">>}

\* the pieces rendered text is put together from, in the order they are in it
\* name and description are of a tool, text is a str the piece shows as it is
Piece(kind, name, description, params, text) ==
    [piece |-> kind, name |-> name, description |-> description,
     params |-> params, text |-> text]
\* json.dumps(schema, indent=2)
JsonDumps(schema) == [dumped |-> schema, indent |-> 2]
NoParametersText == [dumped |-> <<"No specific parameters required">>, indent |-> 0]
\* the module constant prerequisite, the response contract
Prerequisite == Piece("prerequisite", "", "", NoParametersText, <<>>)
\* the text of one tool: its name, its description and its parameters
ToolInfo_NameOnly(style, t) ==
    Piece(style, t, ToolDescription[t], NoParametersText, <<>>)
ToolInfo(style, t) ==
    LET params_schema == IF HasSchemaMethod[t] THEN ParametersSchema[t] ELSE EmptyDict
    IN Piece(style, t, ToolDescription[t],
             IF params_schema # EmptyDict THEN JsonDumps(params_schema)
             ELSE NoParametersText, <<>>)
ToolInfos(style, ts) == [i \in 1..Len(ts) |-> ToolInfo(style, ts[i])]

\* Prompt._render_raw_prompt
_render_raw_prompt(obj) ==
    IF obj.tools = <<>>
    THEN <<Piece("raw_prompt", "", "", NoParametersText, obj.raw_prompt.t),
           Piece("No tools available.", "", "", NoParametersText, <<>>)>>
    ELSE <<Piece("raw_prompt", "", "", NoParametersText, obj.raw_prompt.t),
           Piece("tools_header", "", "", NoParametersText, <<>>)>>
         \o ToolInfos("Tool:", obj.tools) \o <<Prerequisite>>

\* template_registry, and what a template function returns
TemplateRegistry == {StrText("basic_prompt_template"), StrText("agent_prompt_template")}
TemplateText(tn, ts) ==
    <<Piece("template_head", "", "", NoParametersText, tn)>>
    \o (IF ts = <<>>
        THEN <<Piece("No tools available", "", "", NoParametersText, <<>>)>>
        ELSE ToolInfos("template", ts))
    \o <<Piece("template_tail", "", "", NoParametersText, tn)>>
\* str(e) of the exceptions: the wording, and the name formatted into it
ErrText(wording, name) == [wording |-> wording, name |-> name]
NoErrText == ErrText("", <<>>)
TemplateNotFoundMsg(tn) == ErrText("Prompt template '{}' not found.", tn)
AttrErrorRender == ErrText("'NoneType' object has no attribute 'render'", <<>>)

\* what a call on the Prompt object gave: None, a str, or an exception
PromptRet(call, arg, kind, text, msg) ==
    [call |-> call, arg |-> arg, kind |-> kind, text |-> text, msg |-> msg]
NoPromptRet == PromptRet("", <<>>, "", <<>>, NoErrText)

\* Prompt.render
render(obj) ==
    IF Truthy(obj.raw_prompt)
    THEN [kind |-> "str", text |-> _render_raw_prompt(obj), msg |-> NoErrText]
    ELSE IF obj.template_name.t \notin TemplateRegistry
    THEN [kind |-> "ValueError", text |-> <<>>,
          msg |-> TemplateNotFoundMsg(obj.template_name.t)]
    ELSE [kind |-> "str", text |-> TemplateText(obj.template_name.t, obj.tools),
          msg |-> NoErrText]

\* the value the call obj.set_tools(ts) has
set_tools_returns == PNone

\* the statement obj.set_tools(ts)
set_tools(ts) ==
    /\ prompt_obj # NoPromptObj
    /\ prompt_obj' = [prompt_obj EXCEPT !.tools = ts]
    /\ prompt_ret' = PromptRet("set_tools", ts, "None", <<>>, NoErrText)
    /\ UNCHANGED <<lookup, returned, edits>>
    /\ UNCHANGED <<wfvars, agvars, ctvars, ccvars, cavars>>

\* the statement obj.render()
RenderCall ==
    /\ prompt_obj # NoPromptObj
    /\ prompt_ret' = LET r == render(prompt_obj)
                     IN PromptRet("render", prompt_obj.tools, r.kind, r.text, r.msg)
    /\ UNCHANGED <<prompt_obj, lookup, returned, edits>>
    /\ UNCHANGED <<wfvars, agvars, ctvars, ccvars, cavars>>

\* the expression obj.set_tools(ts).render(): render is looked up on what
\* set_tools returned
ChainedRender(ts) ==
    /\ prompt_obj # NoPromptObj
    /\ prompt_obj' = [prompt_obj EXCEPT !.tools = ts]
    /\ prompt_ret' =
          IF set_tools_returns = PNone
          THEN PromptRet("set_tools.render", ts, "AttributeError", <<>>, AttrErrorRender)
          ELSE LET r == render(prompt_obj')
               IN PromptRet("set_tools.render", ts, r.kind, r.text, r.msg)
    /\ UNCHANGED <<lookup, returned, edits>>
    /\ UNCHANGED <<wfvars, agvars, ctvars, ccvars, cavars>>

\* ---- the accessors of Agent
\* the names accessors are asked for
LookupNames == {"alpha", "beta", "ghost"}

\* Agent.find_sub_agent_by_name
find_sub_agent_by_name(a, name) ==
    LET subs == SubAgentsOf[a]
        hits == {i \in 1..Len(subs) : AgentName[subs[i]] = name}
    IN IF hits = {} THEN NoAgent
       ELSE subs[CHOOSE i \in hits : \A j \in hits : i <= j]

\* Agent.get_all_sub_agent_names
get_all_sub_agent_names(a) ==
    [i \in 1..Len(SubAgentsOf[a]) |-> AgentName[SubAgentsOf[a][i]]]

\* a call of a method and what it returned: a bool, an agent or a list
Lookup(op, a, arg, b, found, names) ==
    [op |-> op, agent |-> a, arg |-> arg, bool |-> b, found |-> found,
     names |-> names]
NoLookup == Lookup("", NoAgent, "", FALSE, NoAgent, <<>>)

IsSupervisorCall(a) ==
    /\ lookup' = Lookup("is_supervisor", a, "", is_supervisor(a), NoAgent, <<>>)
    /\ UNCHANGED <<prompt_obj, prompt_ret, returned, edits>>
    /\ UNCHANGED <<wfvars, agvars, ctvars, ccvars, cavars>>

FindSubAgentCall(a, name) ==
    /\ lookup' = Lookup("find_sub_agent_by_name", a, name, FALSE,
                        find_sub_agent_by_name(a, name), <<>>)
    /\ UNCHANGED <<prompt_obj, prompt_ret, returned, edits>>
    /\ UNCHANGED <<wfvars, agvars, ctvars, ccvars, cavars>>

SubAgentNamesCall(a) ==
    /\ lookup' = Lookup("get_all_sub_agent_names", a, "", FALSE, NoAgent,
                        get_all_sub_agent_names(a))
    /\ UNCHANGED <<prompt_obj, prompt_ret, returned, edits>>
    /\ UNCHANGED <<wfvars, agvars, ctvars, ccvars, cavars>>

\* ---- a Workflow object over several calls
\* how many run calls, and how many add_agent and remove_agent calls
MaxRuns == 2
MaxEdits == 2

\* the list object the k-th run call binds agent_outputs to: each call
\* makes a new list
ListOfCall_OneList(k) == 1
ListOfCall(k) == k

\* a WorkflowResult the caller holds: the fields it had when run returned,
\* the list object its agent_outputs is, and how many agent.run calls the
\* workflow had made by then
Held(r, list, calls) == [result |-> r, list |-> list, calls |-> calls]

\* run returns its WorkflowResult to the caller; its locals are gone
Return ==
    /\ wpc = "done"
    /\ returned' = Append(returned,
                          Held(result, ListOfCall(Len(returned) + 1), Len(invocations)))
    /\ wpc' = "idle"
    /\ input_data' = <<>>
    /\ agent_outputs' = <<>>
    /\ current_input' = <<>>
    /\ step_i' = 0
    /\ iteration' = 0
    /\ current_context' = EmptyContext
    /\ pending' = NoPending
    /\ result' = NoResult
    /\ UNCHANGED <<agents, mode, manager_agent, max_iterations, invocations>>
    /\ UNCHANGED <<prompt_obj, prompt_ret, lookup, edits>>
    /\ UNCHANGED <<agvars, ctvars, ccvars, cavars>>

\* Workflow.add_agent
add_agent(a) ==
    /\ wpc = "idle"
    /\ edits < MaxEdits
    /\ edits' = edits + 1
    /\ agents' = IF \E i \in 1..Len(agents) : agents[i] = a
                 THEN agents ELSE Append(agents, a)
    /\ lookup' = Lookup("add_agent", a, "", FALSE, NoAgent, <<>>)
    /\ UNCHANGED <<mode, manager_agent, max_iterations, wpc, input_data,
                   agent_outputs, current_input, step_i, iteration,
                   current_context, pending, result, invocations>>
    /\ UNCHANGED <<prompt_obj, prompt_ret, returned>>
    /\ UNCHANGED <<agvars, ctvars, ccvars, cavars>>

\* Workflow.remove_agent: the first agent of that name is popped
remove_agent(agent_name) ==
    LET hits == {i \in 1..Len(agents) : AgentName[agents[i]] = agent_name}
        first == CHOOSE i \in hits : \A j \in hits : i <= j
    IN /\ wpc = "idle"
       /\ edits < MaxEdits
       /\ edits' = edits + 1
       /\ agents' = IF hits = {} THEN agents
                    ELSE [i \in 1..(Len(agents) - 1) |->
                             IF i < first THEN agents[i] ELSE agents[i + 1]]
       /\ lookup' = Lookup("remove_agent", NoAgent, agent_name, hits # {},
                           NoAgent, <<>>)
       /\ UNCHANGED <<mode, manager_agent, max_iterations, wpc, input_data,
                      agent_outputs, current_input, step_i, iteration,
                      current_context, pending, result, invocations>>
       /\ UNCHANGED <<prompt_obj, prompt_ret, returned>>
       /\ UNCHANGED <<agvars, ctvars, ccvars, cavars>>

\* no call on a built object is traced
ObParked ==
    /\ prompt_obj = NoPromptObj
    /\ prompt_ret = NoPromptRet
    /\ lookup = NoLookup
    /\ returned = <<>>
    /\ edits = 0

\* ------------------------------------------------- authentication cache
\* a cache_toolkit_auth call is three steps that other callers' steps can
\* come between: the load of the file and the update of the local dict, the
\* open of the file for writing, and the write of the dict with the close
MaxCacheCalls == 2
CacheCallers == {1, 2}
CallerUser == [w \in CacheCallers |-> IF w = 1 THEN "u1" ELSE "u2"]
CallerToolkit == [w \in CacheCallers |-> IF w = 1 THEN "GitHub" ELSE "Slack"]
\* str.lower() of the toolkit names
ToolkitLower(tk) == IF tk = "GitHub" THEN "github"
                    ELSE IF tk = "Slack" THEN "slack" ELSE tk
\* f"{user_id}_{toolkit.lower()}"
CacheKey(toolkit, user_id) == <<user_id, ToolkitLower(toolkit)>>
SeedKey == CacheKey("gmail", "default")
CacheKeys == {CacheKey(CallerToolkit[w], CallerUser[w]) : w \in CacheCallers}
                 \cup {SeedKey}
NoEntry == [toolkit |-> "", user_id |-> "", timestamp |-> 0, status |-> ""]
\* the value cache_toolkit_auth stores; the time of the call is the number
\* of the caller's call
CacheEntry(toolkit, user_id, now) ==
    [toolkit |-> toolkit, user_id |-> user_id, timestamp |-> now,
     status |-> "authorized"]
EmptyCache == [k \in CacheKeys |-> NoEntry]
SeededCache == [EmptyCache EXCEPT ![SeedKey] = CacheEntry("gmail", "default", 1)]
CacheSize(d) == Cardinality({k \in CacheKeys : d[k] # NoEntry})

\* the file: absent, holding the JSON text of a dict, or holding text that
\* json.load rejects (nothing yet after the open for writing, or the head of
\* one writer's text followed by the tail of a longer one); size is the
\* length of the text, in entries
NoCacheFile == [k |-> "none", data |-> EmptyCache, size |-> 0]
JsonFile(d) == [k |-> "json", data |-> d, size |-> CacheSize(d)]
BadFile(n) == [k |-> "bad", data |-> EmptyCache, size |-> n]

\* AuthCache._load_cache: the dict of the file, {} when there is no file or
\* json.load raises
_load_cache(f) == IF f.k = "json" THEN f.data ELSE EmptyCache

\* AuthCache._save_cache, the open: mode 'w' empties the file
OpenForWrite(f) == BadFile(0)
\* AuthCache._save_cache, json.dump and the close: the text goes to the
\* start of the file and replaces what is there up to its own length
FilesAfterWrite(f, d) ==
    IF f.size > CacheSize(d) THEN {BadFile(f.size)}
    ELSE IF f.size = CacheSize(d) /\ f.size > 0 /\ ~(f.k = "json" /\ f.data = d)
    THEN {JsonFile(d), BadFile(f.size)}
    ELSE {JsonFile(d)}

\* cache_toolkit_auth up to the call of _save_cache
CacheLoad(w) ==
    /\ cache_pc[w] = "idle"
    /\ cache_calls[w] < MaxCacheCalls
    /\ cache_calls' = [cache_calls EXCEPT ![w] = @ + 1]
    /\ cache_data' = [cache_data EXCEPT ![w] =
           [_load_cache(cache_file) EXCEPT
               ![CacheKey(CallerToolkit[w], CallerUser[w])] =
                   CacheEntry(CallerToolkit[w], CallerUser[w], cache_calls[w] + 1)]]
    /\ cache_pc' = [cache_pc EXCEPT ![w] = "loaded"]
    /\ UNCHANGED <<cache_file, authorized>>
    /\ UNCHANGED <<wfvars, agvars, ctvars, ccvars, obvars>>

\* _save_cache: open(self.cache_file, 'w')
CacheOpen(w) ==
    /\ cache_pc[w] = "loaded"
    /\ cache_file' = OpenForWrite(cache_file)
    /\ cache_pc' = [cache_pc EXCEPT ![w] = "open"]
    /\ UNCHANGED <<cache_data, cache_calls, authorized>>
    /\ UNCHANGED <<wfvars, agvars, ctvars, ccvars, obvars>>

\* _save_cache: json.dump and the end of the with block; the call returns
CacheWrite(w) ==
    /\ cache_pc[w] = "open"
    /\ cache_file' \in FilesAfterWrite(cache_file, cache_data[w])
    /\ cache_pc' = [cache_pc EXCEPT ![w] = "idle"]
    /\ authorized' = [authorized EXCEPT
           ![CacheKey(CallerToolkit[w], CallerUser[w])] =
               cache_data[w][CacheKey(CallerToolkit[w], CallerUser[w])]]
    /\ UNCHANGED <<cache_data, cache_calls>>
    /\ UNCHANGED <<wfvars, agvars, ctvars, ccvars, obvars>>

\* no call on an AuthCache is traced
CacheParked ==
    /\ cache_file = NoCacheFile
    /\ cache_pc = [w \in CacheCallers |-> "idle"]
    /\ cache_data = [w \in CacheCallers |-> EmptyCache]
    /\ cache_calls = [w \in CacheCallers |-> 0]
    /\ authorized = EmptyCache

\* ------------------------------------------------------- specifications
\* a workflow object and one run call on it
Init == WfInit /\ AgentParked /\ CtorParked /\ ConcParked /\ ObParked /\ CacheParked
Next == WfNext
Spec == Init /\ [][Next]_vars

\* an agent object and one run call on it
AgentInit == AgInit /\ WfParked /\ CtorParked /\ ConcParked /\ ObParked /\ CacheParked
AgentNext == AgNext
AgentSpec == AgentInit /\ [][AgentNext]_vars

\* a Workflow(...) call
WfCtorInit == WfUnbuilt /\ AgentParked /\ CtorParked /\ ConcParked /\ ObParked /\ CacheParked
WfCtorNext ==
    \E as \in CtorAgentLists, md \in ModeArgs, mgr \in ManagerArgs, mi \in IntArgs :
       Workflow__init__(as, md, mgr, mi)
WfCtorSpec == WfCtorInit /\ [][WfCtorNext]_vars

\* a Prompt(...) call and an Agent(...) call, in either order
AgCtorInit == AgUnbuilt /\ WfParked /\ CtorParked /\ ConcParked /\ ObParked /\ CacheParked
AgCtorNext ==
    \/ \E tn \in TemplateArgs, rp \in RawPromptArgs : Prompt__init__(tn, rp)
    \/ \E a \in AgentArgs, mk \in BOOLEAN : Agent__init__(a, mk)
AgCtorSpec == AgCtorInit /\ [][AgCtorNext]_vars

\* two threads of the server call run on the one executable, and when both
\* calls have ended run is called once more by itself
ConcInit ==
    /\ \/ ConcAgent /\ WfUnbuilt
       \/ ConcWorkflow /\ AgUnbuilt
    /\ CtorParked
    /\ ObParked /\ CacheParked
    /\ cur = 1
    /\ frames = [t \in Threads \cup {Alone} |-> LocalsNow]
    /\ alone_of = 0
    /\ overlapped = {}
\* the steps of run, made by the running thread
ThreadAgentRun(x) == SameInput(x) /\ AgentRun(x)
ThreadBasicCall(oc) ==
    SameResponse(oc, model_calls, frames[alone_of].model_calls) /\ BasicCall(oc)
ThreadThink(oc) ==
    SameResponse(oc, model_calls, frames[alone_of].model_calls) /\ Think(oc)
ThreadAct(oc) ==
    SameResponse(oc, tool_runs, frames[alone_of].tool_runs) /\ Act(oc)
ThreadRun(x) == SameInput(x) /\ Run(x)
ThreadSeqStep(oc) ==
    SameResponse(oc, invocations, frames[alone_of].invocations) /\ SeqStep(oc)
ThreadSupManager(oc) ==
    SameResponse(oc, invocations, frames[alone_of].invocations) /\ SupManager(oc)
ThreadSupWorker(oc) ==
    SameResponse(oc, invocations, frames[alone_of].invocations) /\ SupWorker(oc)
ConcNext ==
    \/ \E t \in Threads : Switch(t)
    \/ \E r \in Threads : CallAlone(r)
    \/ \E x \in InputTexts : ThreadAgentRun(x)
    \/ \E oc \in ConcModelOutcomes : ThreadBasicCall(oc)
    \/ \E oc \in ConcModelOutcomes : ThreadThink(oc)
    \/ \E oc \in ToolOutcomes : ThreadAct(oc)
    \/ \E x \in InputTexts : ThreadRun(x)
    \/ \E oc \in ConcWorkerOutcomes : ThreadSeqStep(oc)
    \/ \E oc \in ConcManagerOutcomes : ThreadSupManager(oc)
    \/ \E oc \in ConcWorkerOutcomes : ThreadSupWorker(oc)
ConcSpec == ConcInit /\ [][ConcNext]_vars

\* a Prompt object and an Agent object, and calls of their methods
BuiltPrompts ==
    {PromptObj(tn, rp, <<>>) :
        tn \in {PNone, PStr(<<>>), PLit("agent_prompt_template"), PLit("poem_template")},
        rp \in {PNone, PStr(<<>>), PLit("You are a helpful agent."), PLit("Be brief.")}}
ObjInit ==
    /\ WfUnbuilt /\ AgentParked /\ CtorParked /\ ConcParked /\ CacheParked
    /\ prompt_obj \in {o \in BuiltPrompts :
                          PromptCheck(o.template_name, o.raw_prompt) = ""}
    /\ prompt_ret = NoPromptRet
    /\ lookup = NoLookup
    /\ returned = <<>>
    /\ edits = 0
ObjNext ==
    \/ \E ts \in PromptToolLists : set_tools(ts)
    \/ RenderCall
    \/ \E ts \in PromptToolLists : ChainedRender(ts)
    \/ \E a \in AgentIds : IsSupervisorCall(a)
    \/ \E a \in AgentIds, n \in LookupNames : FindSubAgentCall(a, n)
    \/ \E a \in AgentIds : SubAgentNamesCall(a)
ObjSpec == ObjInit /\ [][ObjNext]_vars

\* a Workflow object: run is called on it again and again, and between the
\* calls agents are added to it and removed from it
LifeInit ==
    /\ agents = <<"a1", "a2">>
    /\ mode \in {"sequential", "supervised"}
    /\ manager_agent \in {NoAgent, "m"}
    /\ WfInitOk(agents, mode, manager_agent)
    /\ max_iterations \in 1..2
    /\ wpc = "idle"
    /\ input_data = <<>>
    /\ agent_outputs = <<>>
    /\ current_input = <<>>
    /\ step_i = 0
    /\ iteration = 0
    /\ current_context = EmptyContext
    /\ pending = NoPending
    /\ result = NoResult
    /\ invocations = <<>>
    /\ AgentParked /\ CtorParked /\ ConcParked /\ CacheParked
    /\ prompt_obj = NoPromptObj
    /\ prompt_ret = NoPromptRet
    /\ lookup = NoLookup
    /\ returned = <<>>
    /\ edits = 0
NextRun(x) == Len(returned) < MaxRuns /\ Run(x)
LifeNext ==
    \/ \E x \in {StrText("x")} : NextRun(x)
    \/ \E oc \in ConcWorkerOutcomes : SeqStep(oc)
    \/ \E oc \in ConcManagerOutcomes : SupManager(oc)
    \/ \E oc \in ConcWorkerOutcomes : SupWorker(oc)
    \/ Return
    \/ \E a \in {"a3", "m"} : add_agent(a)
    \/ \E n \in {"alpha", "beta", "ghost"} : remove_agent(n)
LifeSpec == LifeInit /\ [][LifeNext]_vars

\* Agent.run as one sequential call that goes on: once a step of the call can
\* be taken (the call itself, a get_response that answers, a tool.run that
\* ends) it is taken
AgentFairSpec == AgentInit /\ [][AgentNext]_vars /\ WF_vars(AgentNext)

\* two agents with one cache file (the same cache directory), each calling
\* cache_toolkit_auth for its own user and toolkit on its own thread
CacheInit ==
    /\ WfUnbuilt /\ AgentParked /\ CtorParked /\ ConcParked /\ ObParked
    /\ cache_file \in {NoCacheFile, JsonFile(SeededCache)}
    /\ cache_pc = [w \in CacheCallers |-> "idle"]
    /\ cache_data = [w \in CacheCallers |-> EmptyCache]
    /\ cache_calls = [w \in CacheCallers |-> 0]
    /\ authorized = _load_cache(cache_file)
CacheNext ==
    \/ \E w \in CacheCallers : CacheLoad(w)
    \/ \E w \in CacheCallers : CacheOpen(w)
    \/ \E w \in CacheCallers : CacheWrite(w)
CacheSpec == CacheInit /\ [][CacheNext]_vars

\* a Workflow(...) call and then one run call on the object it made
UseInit == WfCtorInit
UseNext ==
    \/ \E as \in CtorAgentLists, md \in ModeArgs, mgr \in ManagerArgs,
          mi \in {Given(n) : n \in 0..MaxIter} : Workflow__init__(as, md, mgr, mi)
    \/ \E x \in {StrText("x")} : Run(x)
    \/ \E oc \in ConcWorkerOutcomes : SeqStep(oc)
    \/ \E oc \in ConcManagerOutcomes : SupManager(oc)
    \/ \E oc \in ConcWorkerOutcomes : SupWorker(oc)
UseSpec == UseInit /\ [][UseNext]_vars

\* ------------------------------------------------------------ properties
IsManagerCall(e) == e.role = "manager"
IsWorkerCall(e) == e.role = "worker"
ManagerCalls == SelectSeq(invocations, IsManagerCall)
WorkerCalls == SelectSeq(invocations, IsWorkerCall)
AnyRaised == \E i \in 1..Len(invocations) : invocations[i].raised

\* the text is one JSON object, bare or inside a pair of fences
IsObjText(text) ==
    LET u == Strip(text)
        objs == {i \in 1..Len(u) : u[i].k = "obj"}
        fences == {i \in 1..Len(u) : u[i].k = "fence"}
    IN /\ Cardinality(objs) = 1
       /\ \A i \in 1..Len(u) : u[i].k \in {"obj", "ws", "fence"}
       /\ \/ fences = {}
          \/ fences = {1, Len(u)} /\ Len(u) > 1 /\ u[Len(u)].s = FenceBare
TheObj(text) == text[CHOOSE i \in 1..Len(text) : text[i].k = "obj"].o
IsCompleteJson(text) == IsObjText(text) /\ TheObj(text).action = JStr("complete")
IsDelegateJson(text) == IsObjText(text) /\ TheObj(text).action = JStr("delegate")
NameExists(v) == v.ty = "str" /\ \E i \in 1..Len(agents) : AgentName[agents[i]] = v.s
FirstNamed(n) == agents[CHOOSE i \in 1..Len(agents) :
                          /\ AgentName[agents[i]] = n
                          /\ \A j \in 1..(i - 1) : AgentName[agents[j]] # n]

\* C1: in sequential mode the agents are invoked once each in list order,
\* the first with the input of run and each later one with the previous
\* agent's output; when none raises the result is successful, its
\* final_output is the last agent's output and agent_outputs has one entry
\* per agent in order, with step 1..n and the input and output of that call.
C1_SequentialChain ==
    mode = "sequential" =>
      /\ Len(invocations) <= Len(agents)
      /\ \A i \in 1..Len(invocations) :
            /\ invocations[i].agent = agents[i]
            /\ invocations[i].arg =
                  [ty |-> "str", t |-> IF i = 1 THEN input_data ELSE invocations[i - 1].out]
      /\ (wpc = "done" /\ ~AnyRaised) =>
            /\ Len(invocations) = Len(agents)
            /\ result.success = TRUE
            /\ result.final_output = [ty |-> "str", t |-> invocations[Len(agents)].out]
            /\ Len(result.agent_outputs) = Len(agents)
            /\ \A i \in 1..Len(agents) :
                  result.agent_outputs[i] =
                     [agent_name |-> [ty |-> "str", t |-> <<Word(AgentName[agents[i]])>>],
                      input |-> invocations[i].arg, output |-> invocations[i].out,
                      step |-> i, iteration |-> 0, delegated_by |-> ""]

C1_Witness ==
    /\ mode = "sequential" /\ wpc = "done" /\ ~AnyRaised
    /\ Len(agents) = 3 /\ Len(invocations) = 3
    /\ invocations[1].out # invocations[2].out
    /\ invocations[2].out # input_data
    /\ result.success

\* the result of a sequential run whose k-th agent raised, but for the error
SeqAbortShape ==
    LET k == Len(invocations)
    IN /\ invocations[k].raised
       /\ \A i \in 1..(k - 1) : ~invocations[i].raised
       /\ k <= Len(agents)
       /\ invocations[k].agent = agents[k]
       /\ result.success = FALSE
       /\ result.final_output = [ty |-> "str", t |-> <<>>]
       /\ Len(result.agent_outputs) = k - 1
       /\ \A i \in 1..(k - 1) :
             /\ result.agent_outputs[i].agent_name.t = <<Word(AgentName[agents[i]])>>
             /\ result.agent_outputs[i].input = invocations[i].arg
             /\ result.agent_outputs[i].output = invocations[i].out
             /\ result.agent_outputs[i].step = i

\* C2 (as stated): when the k-th agent of a sequential run raises, no later
\* agent is invoked and the result has success=false, final_output="", a
\* non-empty error and the k-1 entries of the agents that completed.
C2_Original ==
    (mode = "sequential" /\ wpc = "done" /\ AnyRaised) =>
       /\ SeqAbortShape
       /\ result.error.ty = "str" /\ result.error.t # <<>>

\* C2 (amended): as above, with error equal to the exception's message
\* str(e), which is the empty string when the exception carries no message.
C2_SequentialAbort ==
    (mode = "sequential" /\ wpc = "done" /\ AnyRaised) =>
       /\ SeqAbortShape
       /\ result.error = [ty |-> "str", t |-> StrText(invocations[Len(invocations)].msg)]

C2_Witness ==
    /\ mode = "sequential" /\ wpc = "done"
    /\ Len(agents) = 3 /\ Len(invocations) = 2
    /\ invocations[2].raised /\ invocations[2].msg = "boom"
    /\ Len(result.agent_outputs) = 1

\* C3: run never lets an exception out: in every mode and for every outcome
\* of the agent and manager invocations a finished call has returned a
\* WorkflowResult, and when an invocation raised that result has
\* success=false and error set.
C3_RunNeverRaises ==
    /\ wpc \in {"idle", "seq", "sup_manager", "sup_worker", "done"}
    /\ wpc = "done" =>
          /\ result # NoResult
          /\ result.final_output.ty # "absent"
          /\ AnyRaised => (result.success = FALSE /\ result.error.ty = "str")

C3_Witness ==
    /\ wpc = "done" /\ mode = "supervised"
    /\ Len(invocations) = 2 /\ invocations[2].raised /\ invocations[2].role = "worker"
    /\ result.success = FALSE

\* C4: when the manager's first response is the JSON object
\* {"action":"complete","final_answer":"X"}, the supervised run is over after
\* that one manager invocation, with no worker invoked, and the result is
\* success=true, final_output="X", agent_outputs=[].
C4_ImmediateComplete ==
    (/\ mode = "supervised" /\ Len(invocations) >= 1
     /\ ~invocations[1].raised
     /\ Len(invocations[1].out) = 1 /\ invocations[1].out[1].k = "obj"
     /\ invocations[1].out[1].o.action = JStr("complete")
     /\ invocations[1].out[1].o.final_answer.ty = "str") =>
       /\ wpc = "done"
       /\ Len(invocations) = 1
       /\ invocations[1].role = "manager"
       /\ result = [success |-> TRUE,
                    final_output |-> [ty |-> "str",
                        t |-> <<Word(invocations[1].out[1].o.final_answer.s)>>],
                    agent_outputs |-> <<>>, error |-> PNone]

C4_Witness ==
    /\ mode = "supervised" /\ wpc = "done" /\ Len(invocations) = 1
    /\ invocations[1].out = <<ObjTok(CompleteObj)>>
    /\ result.success

\* the manager response is a delegate decision whose agent_name no agent has
IsDelegateToUnknown(e) ==
    /\ e.role = "manager" /\ ~e.raised
    /\ IsDelegateJson(e.out)
    /\ ~NameExists(TheObj(e.out).agent_name)
\* the Python value of the agent_name of a delegate decision
DelegateName(e) ==
    IF TheObj(e.out).agent_name.ty = "str"
    THEN [ty |-> "str", t |-> <<Word(TheObj(e.out).agent_name.s)>>]
    ELSE PNone

\* C5: when the manager first delegates to the name of an existing worker
\* with a task_input and then replies complete, the manager is invoked
\* exactly twice and the named worker exactly once with that task_input, and
\* the successful result has one agent_outputs entry, for that worker, with
\* the task_input, the worker's output and iteration 1.
C5_DelegateThenComplete ==
    LET mc == ManagerCalls
        wc == WorkerCalls
    IN (/\ mode = "supervised" /\ Len(mc) >= 2
        /\ ~mc[1].raised /\ IsDelegateJson(mc[1].out)
        /\ NameExists(TheObj(mc[1].out).agent_name)
        /\ TheObj(mc[1].out).task_input.ty = "str"
        /\ ~mc[2].raised /\ IsCompleteJson(mc[2].out)) =>
          /\ wpc = "done"
          /\ Len(mc) = 2 /\ Len(wc) = 1 /\ Len(invocations) = 3
          /\ invocations[2].role = "worker"
          /\ invocations[2].agent = FirstNamed(TheObj(mc[1].out).agent_name.s)
          /\ invocations[2].arg = [ty |-> "str", t |-> <<Word(TheObj(mc[1].out).task_input.s)>>]
          /\ result.success = TRUE
          /\ result.agent_outputs =
                << [agent_name |-> DelegateName(mc[1]), input |-> invocations[2].arg,
                    output |-> invocations[2].out, step |-> 0, iteration |-> 1,
                    delegated_by |-> "manager"] >>

C5_Witness ==
    /\ mode = "supervised" /\ wpc = "done" /\ agents = <<"a1", "a2", "a3">>
    /\ Len(invocations) = 3
    /\ invocations[1].out = <<ObjTok(DelegateObj(JStr("alpha"), JStr("T1")))>>
    /\ invocations[2].agent = "a1" /\ invocations[2].out = StrText("out1")
    /\ IsCompleteJson(invocations[3].out)
    /\ result.success

C6_State ==
    mode = "supervised" =>
      /\ \A j \in 1..Len(invocations) :
            IsDelegateToUnknown(invocations[j]) =>
               IF j < Len(invocations)
               THEN /\ invocations[j + 1].role = "manager"
                    /\ invocations[j + 1].prompt.current_status =
                          [tag |-> "agent_not_found", name |-> DelegateName(invocations[j])]
                    /\ invocations[j + 1].prompt.completed_tasks =
                          invocations[j].prompt.completed_tasks
               ELSE /\ current_context.current_status =
                          [tag |-> "agent_not_found", name |-> DelegateName(invocations[j])]
                    /\ \/ wpc = "sup_manager" /\ iteration < max_iterations
                       \/ /\ wpc = "done" /\ iteration = max_iterations
                          /\ result.error = [ty |-> "str", t |-> <<Word("Maximum iterations reached")>>]
      /\ (wpc = "done" /\ \A j \in 1..Len(invocations) : IsDelegateToUnknown(invocations[j])) =>
            /\ Len(invocations) = max_iterations
            /\ result.success = FALSE
            /\ result.error = [ty |-> "str", t |-> <<Word("Maximum iterations reached")>>]
            /\ result.agent_outputs = <<>>

C6_Step ==
    (/\ mode = "supervised"
     /\ Len(invocations') = Len(invocations) + 1
     /\ IsDelegateToUnknown(invocations'[Len(invocations')])) =>
       /\ agent_outputs' = agent_outputs
       /\ current_context'.completed_tasks = current_context.completed_tasks
       /\ wpc' \in {"sup_manager", "done"}

\* C6: a delegation to a name that matches no agent does not abort the
\* supervised loop: no worker is invoked, agent_outputs and completed_tasks
\* stay as they were, current_status records that the agent was not found,
\* the manager is asked again in the next iteration, and a run in which
\* every iteration does this ends with success=false and
\* error="Maximum iterations reached".
C6_UnknownDelegate == []C6_State /\ [][C6_Step]_vars

C6_Witness ==
    /\ mode = "supervised" /\ wpc = "done" /\ max_iterations = 2
    /\ Len(invocations) = 2
    /\ IsDelegateToUnknown(invocations[1]) /\ IsDelegateToUnknown(invocations[2])
    /\ invocations[1].out # invocations[2].out
    /\ result.success = FALSE

\* no manager response so far was taken as a complete decision
NoCompleteAction ==
    \A j \in 1..Len(invocations) :
       (invocations[j].role = "manager" /\ ~invocations[j].raised) =>
          _parse_manager_decision(invocations[j].out).action # PLit("complete")

\* every pass of the loop ran to its end: nothing raised in it
NoIterationRaised ==
    /\ ~AnyRaised
    /\ \A j \in 1..Len(invocations) :
          invocations[j].role = "manager" =>
             _parse_manager_decision(invocations[j].out).action.ty = "str"

\* the result of the supervised loop running out of iterations
ExhaustionShape ==
    /\ Len(ManagerCalls) = max_iterations
    /\ result.success = FALSE
    /\ result.final_output.ty = "str" /\ result.final_output.t # <<>>
    /\ result.error = [ty |-> "str", t |-> <<Word("Maximum iterations reached")>>]
    /\ Len(result.agent_outputs) = Len(WorkerCalls)
    /\ \A i \in 1..Len(WorkerCalls) :
          /\ result.agent_outputs[i].input = WorkerCalls[i].arg
          /\ result.agent_outputs[i].output = WorkerCalls[i].out

MentionsCall(text) ==
    \E i \in 1..Len(text) :
       /\ text[i].k = "obj"
       /\ \/ text[i].o.tool_call.ty # "absent"
          \/ text[i].o.connector_call.ty # "absent"

\* the response contains one of the two failure phrases, in any letter case
MentionsFailure(text) ==
    \E i \in 1..Len(text) :
       \/ text[i].k = "word" /\ text[i].s \in FailWords
       \/ text[i].k = "obj" /\ text[i].o.reasoning.ty = "str"
                            /\ text[i].o.reasoning.s \in FailWords

\* the response is one JSON object (bare, fenced or after prose) whose
\* tool_call has a tool_input and names one of the agent's tools exactly
IsValidToolCall(text) ==
    /\ Cardinality({i \in 1..Len(text) : text[i].k = "obj"}) = 1
    /\ TheObj(text).tool_call.ty = "dict"
    /\ TheObj(text).tool_call.tool_input.ty # "absent"
    /\ TheObj(text).tool_call.tool_name.ty = "str"
    /\ \E i \in 1..Len(tools) : tools[i] = TheObj(text).tool_call.tool_name.s

\* C8: an agent with no tools makes one model call and returns the model's
\* text unchanged, whatever the text is; it runs no tool and makes no second
\* call.
C8_BasicMode ==
    tools = <<>> =>
      /\ Len(model_calls) <= 1
      /\ tool_runs = <<>>
      /\ conversation_history = <<>>
      /\ apc = "returned" =>
            /\ Len(model_calls) = 1
            /\ model_calls[1].prompt.input = agent_input
            /\ agent_result = [ty |-> "str", t |-> model_calls[1].out]
      /\ (Len(model_calls) = 1 /\ ~model_calls[1].raised) => apc = "returned"

C8_Witness ==
    /\ tools = <<>> /\ apc = "returned" /\ Len(model_calls) = 1
    /\ MentionsCall(model_calls[1].out)
    /\ TheObj(model_calls[1].out).tool_call.ty = "dict"
    /\ agent_result.t = model_calls[1].out

\* what run does on a first response that is its final answer
SingleRoundTrip ==
    /\ apc = "returned"
    /\ agent_result = [ty |-> "str", t |-> model_calls[1].out]
    /\ Len(model_calls) = 1
    /\ tool_runs = <<>>

\* C9 (as stated): with tools, a first model response with no tool_call or
\* connector_call JSON and no failure phrase is returned as it is, with no
\* further model call and no tool call.
C9_Original ==
    (/\ tools # <<>> /\ Len(model_calls) >= 1
     /\ ~model_calls[1].raised
     /\ ~MentionsCall(model_calls[1].out)
     /\ ~MentionsFailure(model_calls[1].out)) => SingleRoundTrip

\* C9 (amended): the same for a first response that is not the empty string;
\* an empty response is recorded in the history and the loop goes on.
C9_SingleRoundTrip ==
    (/\ tools # <<>> /\ Len(model_calls) >= 1
     /\ ~model_calls[1].raised
     /\ model_calls[1].out # <<>>
     /\ ~MentionsCall(model_calls[1].out)
     /\ ~MentionsFailure(model_calls[1].out)) => SingleRoundTrip

C9_Witness ==
    /\ tools # <<>> /\ apc = "returned" /\ Len(model_calls) = 1
    /\ model_calls[1].out = StrText("No error found")
    /\ agent_result = PStr(StrText("No error found"))

\* every model call so far returned a valid call of an existing tool
AllValidToolCalls ==
    \A i \in 1..Len(model_calls) :
       ~model_calls[i].raised /\ IsValidToolCall(model_calls[i].out)

\* C10: with tools, run makes at most max_iterations model calls whatever the
\* model and the tools do; when every model response is a valid tool_call
\* naming an existing tool, it makes exactly max_iterations model calls and
\* max_iterations tool executions and returns the fixed exhaustion message.
C10_LoopBound ==
    tools # <<>> =>
      /\ Len(model_calls) <= agent_max_iterations
      /\ Len(tool_runs) <= Len(model_calls)
      /\ (model_supported /\ AllValidToolCalls) =>
            /\ apc \in {"idle", "think", "act", "returned"}
            /\ apc = "think" => Len(tool_runs) = Len(model_calls)
            /\ apc = "act" => Len(tool_runs) = Len(model_calls) - 1
            /\ apc = "returned" =>
                  /\ Len(model_calls) = agent_max_iterations
                  /\ Len(tool_runs) = agent_max_iterations
                  /\ agent_result = [ty |-> "str", t |-> <<Word(ExhaustedMsg)>>]

C10_Witness ==
    /\ tools = <<"web_search", "search">> /\ agent_max_iterations = 2
    /\ apc = "returned" /\ AllValidToolCalls
    /\ Len(model_calls) = 2 /\ Len(tool_runs) = 2
    /\ tool_runs[1].raised /\ ~tool_runs[2].raised
    /\ tool_runs[1].tool = 2

\* ---- tool-name resolution
\* the model call returned a tool_call with a tool name and a tool input
IsWellFormedCall(e) ==
    /\ ~e.raised /\ e.out # <<>>
    /\ _extract_tool_call(e.out).ty = "dict"
    /\ _extract_tool_call(e.out).tool_name.ty = "str"
    /\ _extract_tool_call(e.out).tool_input.ty # "absent"
RequestedName(e) == _extract_tool_call(e.out).tool_name.s
\* tool i's name contains, or is contained in, the name, ignoring case
NameMatches(i, name) ==
    \/ IsSubstring(Lower(name), Lower(tools[i]))
    \/ IsSubstring(Lower(tools[i]), Lower(name))
HasExact(name) == \E i \in 1..Len(tools) : tools[i] = name
\* the call names a tool the agent can resolve, exactly or by substring
IsResolvedCall(e) ==
    /\ IsWellFormedCall(e)
    /\ \/ HasExact(RequestedName(e))
       \/ \E i \in 1..Len(tools) : NameMatches(i, RequestedName(e))
ResolvedCalls == SelectSeq(model_calls, IsResolvedCall)

\* C11: a requested name that equals a tool's name runs that tool, even when
\* an earlier tool of the list substring-matches; otherwise the first tool in
\* list order whose name contains or is contained in the requested name,
\* ignoring case, is run; each resolved call runs exactly one tool.
C11_ToolResolution ==
    /\ Len(tool_runs) = Len(ResolvedCalls) - (IF apc = "act" THEN 1 ELSE 0)
    /\ \A k \in 1..Len(tool_runs) :
          LET name == RequestedName(ResolvedCalls[k])
              t == tool_runs[k].tool
          IN /\ t \in 1..Len(tools)
             /\ tool_runs[k].input = _extract_tool_call(ResolvedCalls[k].out).tool_input
             /\ HasExact(name) => tools[t] = name
             /\ ~HasExact(name) =>
                   /\ NameMatches(t, name)
                   /\ \A j \in 1..(t - 1) : ~NameMatches(j, name)

\* "search" runs the second tool although "web_search" comes first and
\* contains it; "sea" then runs the first tool that contains it
C11_Witness ==
    /\ tools = <<"web_search", "search">>
    /\ Len(tool_runs) = 2 /\ Len(model_calls) = 2
    /\ IsResolvedCall(model_calls[1]) /\ RequestedName(model_calls[1]) = "search"
    /\ IsResolvedCall(model_calls[2]) /\ RequestedName(model_calls[2]) = "sea"
    /\ tool_runs[1].tool = 2 /\ tool_runs[2].tool = 1

\* ---- failures of the ACT step
\* what follows a pass of the loop that did not return: the next THINK, or
\* the fixed message when no pass remains
LoopGoesOn ==
    IF loop_i + 1 < agent_max_iterations
    THEN apc' = "think" /\ loop_i' = loop_i + 1 /\ agent_result' = agent_result
    ELSE apc' = "returned" /\ agent_result' = [ty |-> "str", t |-> <<Word(ExhaustedMsg)>>]
ErrorLine(n, m) == [k |-> "error", t |-> <<>>, tool_name |-> n, tool_input |-> Abs,
                    msg |-> m]
\* the step is a THINK whose response names a tool that nothing matches
ThinkOfUnknownTool ==
    /\ apc = "think" /\ Len(model_calls') = Len(model_calls) + 1
    /\ IsWellFormedCall(model_calls'[Len(model_calls')])
    /\ ~IsResolvedCall(model_calls'[Len(model_calls')])
\* the step is an ACT whose tool raised
ActThatRaised ==
    /\ apc = "act" /\ Len(tool_runs') = Len(tool_runs) + 1
    /\ tool_runs'[Len(tool_runs')].raised

\* C12: a tool name that matches no tool even by substring, and a matched
\* tool that raises, do not end the run: one history entry "Error executing
\* tool '<name>': <message>" is appended and the loop goes on to the next
\* THINK, or to the exhaustion message when no iteration remains; run does
\* not raise.
C12_Step ==
    /\ ThinkOfUnknownTool =>
          /\ conversation_history' = Append(conversation_history,
                ErrorLine(JStr(RequestedName(model_calls'[Len(model_calls')])),
                          ToolNotFoundMsg))
          /\ tool_runs' = tool_runs
          /\ LoopGoesOn
    /\ ActThatRaised =>
          /\ conversation_history' = Append(conversation_history,
                ErrorLine(tool_call.tool_name, tool_runs'[Len(tool_runs')].msg))
          /\ LoopGoesOn
C12_ActFailures == [][C12_Step]_vars

\* an unknown tool name, then a tool that raises, then the exhaustion message
C12_Witness ==
    /\ apc = "returned" /\ agent_max_iterations = 2
    /\ agent_result = [ty |-> "str", t |-> <<Word(ExhaustedMsg)>>]
    /\ Len(conversation_history) = 3
    /\ conversation_history[2] = ErrorLine(JStr("nothing"), ToolNotFoundMsg)
    /\ conversation_history[3] = ErrorLine(JStr("search"), "tool boom")
    /\ Len(tool_runs) = 1 /\ tool_runs[1].raised

\* ---- construction of workflows
WfCalled == wf_ctor.state # "none"
\* the call raised ValueError and left no Workflow object
WfCtorFailed ==
    /\ wf_ctor.state = "raised" /\ wpc = "unbuilt" /\ agents = <<>>
    /\ wf_ctor.msg \in {AgentsRequiredMsg, ManagerRequiredMsg, ManagerInAgentsMsg,
                        NotAModeMsg(wf_ctor.mode)}
\* the call returned a Workflow object holding its arguments
WfCtorSucceeded ==
    /\ wf_ctor.state = "ok" /\ wpc = "idle"
    /\ agents = wf_ctor.agents /\ mode = wf_ctor.mode
    /\ manager_agent = wf_ctor.manager_agent
ManagerIsMember ==
    \E i \in 1..Len(wf_ctor.agents) : wf_ctor.agents[i] = wf_ctor.manager_agent

\* C13: in supervised mode the construction of a Workflow fails with
\* ValueError, leaving no object, when manager_agent is None and when
\* manager_agent is one of agents; it succeeds when a manager is given that is
\* not in a non-empty agents list.
C13_SupervisedConstruction ==
    (WfCalled /\ wf_ctor.mode = "supervised") =>
       /\ wf_ctor.manager_agent = NoAgent => WfCtorFailed
       /\ ManagerIsMember => WfCtorFailed
       /\ (/\ wf_ctor.manager_agent # NoAgent /\ wf_ctor.agents # <<>>
           /\ ~ManagerIsMember) => WfCtorSucceeded

\* the manager is also the second worker
C13_Witness ==
    /\ wf_ctor.mode = "supervised" /\ wf_ctor.agents = <<"a1", "m">>
    /\ wf_ctor.manager_agent = "m"
    /\ wf_ctor.state = "raised" /\ wf_ctor.msg = ManagerInAgentsMsg
    /\ wpc = "unbuilt"

\* ---- construction of agents
AgentCalled == agent_ctor.state # "none"
\* the call raised ValueError with message m and left no Agent object
AgentCtorFailedWith(m) ==
    agent_ctor.state = "raised" /\ agent_ctor.msg = m /\ apc = "unbuilt"
\* name, model and api_key are the only arguments of the call
NoOtherArguments ==
    /\ agent_ctor.args.custom_tools = <<>>
    /\ ~agent_ctor.args.prompt_given
    /\ ~agent_ctor.args.max_iterations.given
    /\ ~agent_ctor.args.cache_auth.given
    /\ ~agent_ctor.args.sub_agents.given
IsEmptyArg(v) == v.ty = "none" \/ v.t = <<>>
\* the call with model and api_key alone gives an agent with max_iterations 10
DefaultsSucceed ==
    (/\ ~IsEmptyArg(agent_ctor.args.model) /\ ~IsEmptyArg(agent_ctor.args.api_key)
     /\ NoOtherArguments /\ agent_ctor.makedirs_ok) =>
       /\ agent_ctor.state = "ok" /\ apc = "idle"
       /\ agent_max_iterations = 10
       /\ agent_model = agent_ctor.args.model
       /\ agent_api_key = agent_ctor.args.api_key

\* C14 (as stated): Agent construction fails with ValueError "Model must be
\* specified." when model is empty and with ValueError "API key must be
\* specified." when api_key is empty; with both non-empty and no other
\* arguments it succeeds with max_iterations 10.
C14_Original ==
    AgentCalled =>
       /\ IsEmptyArg(agent_ctor.args.model) =>
             AgentCtorFailedWith("Model must be specified.")
       /\ IsEmptyArg(agent_ctor.args.api_key) =>
             AgentCtorFailedWith("API key must be specified.")
       /\ DefaultsSucceed

\* C14 (amended): the model check comes first, so the API key message is that
\* of a call whose model is non-empty and whose api_key is empty; a call with
\* both empty fails with the model message.
C14_AgentValidation ==
    AgentCalled =>
       /\ IsEmptyArg(agent_ctor.args.model) =>
             AgentCtorFailedWith("Model must be specified.")
       /\ (~IsEmptyArg(agent_ctor.args.model) /\ IsEmptyArg(agent_ctor.args.api_key)) =>
             AgentCtorFailedWith("API key must be specified.")
       /\ DefaultsSucceed

\* a model name with an empty API key
C14_Witness ==
    /\ agent_ctor.args.model = PLit("gemini-2.5-flash")
    /\ agent_ctor.args.api_key = PStr(<<>>)
    /\ agent_ctor.state = "raised" /\ agent_ctor.msg = ApiKeyMsg
    /\ apc = "unbuilt"

\* ---- construction of prompts
PromptCalled == new_prompt.state # "none"
\* the argument is provided: a non-empty string (None and "" are not)
Provided(v) == v.ty = "str" /\ Len(v.t) > 0
ExactlyOneOf(tn, rp) == Provided(tn) # Provided(rp)

\* C15: the construction of a Prompt succeeds exactly when one of
\* template_name and raw_prompt is provided (neither fails, both fails), and a
\* constructed Prompt has exactly one of the two set.
C15_PromptExactlyOne ==
    /\ PromptCalled =>
          /\ new_prompt.state = "ok" <=>
                ExactlyOneOf(new_prompt.template_name, new_prompt.raw_prompt)
          /\ new_prompt.state = "raised" <=> new_prompt.obj = NoPromptObj
          /\ new_prompt.state = "ok" =>
                /\ new_prompt.obj.template_name = new_prompt.template_name
                /\ new_prompt.obj.raw_prompt = new_prompt.raw_prompt
                /\ ExactlyOneOf(new_prompt.obj.template_name, new_prompt.obj.raw_prompt)
    /\ agent_ctor.state = "ok" =>
          ExactlyOneOf(agent_prompt.template_name, agent_prompt.raw_prompt)

\* a template name and a raw prompt together
C15_Witness ==
    /\ Provided(new_prompt.template_name) /\ Provided(new_prompt.raw_prompt)
    /\ new_prompt.state = "raised" /\ new_prompt.msg = PromptBothMsg
    /\ new_prompt.obj = NoPromptObj

\* ---- hierarchical mode
HierarchicalCall == WfCalled /\ wf_ctor.mode = "hierarchical"
ManagerGiven == wf_ctor.manager_agent # NoAgent
ManagerHasSubAgents == ManagerGiven /\ Len(SubAgentsOf[wf_ctor.manager_agent]) > 0
\* the names run offers the manager as available agents
Roster == [i \in 1..Len(agents) |-> AgentName[agents[i]]]
SubAgentNames(a) == [i \in 1..Len(SubAgentsOf[a]) |-> AgentName[SubAgentsOf[a][i]]]

\* C16: Workflow(agents=[], mode="hierarchical", manager_agent=supervisor),
\* the supervisor having sub_agents, gives a workflow whose mode value is
\* "hierarchical" and whose manager_agent is the supervisor.
C16_HierarchicalConstruction ==
    (HierarchicalCall /\ wf_ctor.agents = <<>> /\ ManagerHasSubAgents) =>
       /\ wf_ctor.state = "ok"
       /\ mode = "hierarchical"
       /\ manager_agent = wf_ctor.manager_agent

\* C17: in hierarchical mode the construction fails with ValueError "Manager
\* agent is required for hierarchical mode" when no manager is given, and
\* with ValueError "Manager agent must have sub-agents for hierarchical mode"
\* when the manager has no sub_agents.
C17_HierarchicalValidation ==
    HierarchicalCall =>
       /\ ~ManagerGiven =>
             /\ wf_ctor.state = "raised"
             /\ wf_ctor.msg = "Manager agent is required for hierarchical mode"
       /\ (ManagerGiven /\ ~ManagerHasSubAgents) =>
             /\ wf_ctor.state = "raised"
             /\ wf_ctor.msg = "Manager agent must have sub-agents for hierarchical mode"

\* C18: a workflow in hierarchical mode can be run, and its dispatch loop
\* offers the manager the manager's own sub_agents as the roster.
C18_HierarchicalRun ==
    (HierarchicalCall /\ ManagerHasSubAgents) =>
       /\ wpc = "idle"
       /\ mode = "hierarchical"
       /\ Roster = SubAgentNames(manager_agent)

\* ---- connector calls
\* the response is one JSON object with a connector_call member
HasConnectorCall(text) ==
    /\ Cardinality({i \in 1..Len(text) : text[i].k = "obj"}) = 1
    /\ TheObj(text).connector_call.ty = "dict"

\* C19: in the loop a model response whose JSON object has a connector_call
\* key leads to an ACT step on the named connector and is not returned as
\* the final answer.
C19_ConnectorAct ==
    \A i \in 1..Len(model_calls) :
       (/\ tools # <<>> /\ ~model_calls[i].raised
        /\ HasConnectorCall(model_calls[i].out)) =>
          ~(/\ apc = "returned" /\ i = Len(model_calls)
            /\ agent_result = [ty |-> "str", t |-> model_calls[i].out])

\* ---- concurrent calls of run
IsPrefix(a, b) == Len(a) <= Len(b) /\ \A i \in 1..Len(a) : a[i] = b[i]
\* the call made alone has been given everything the earlier call was given
AloneCaughtUp(f) ==
    /\ apc \notin {"idle", "unbuilt"} \/ wpc \notin {"idle", "unbuilt"}
    /\ Len(model_calls) = Len(f.model_calls)
    /\ Len(tool_runs) = Len(f.tool_runs)
    /\ Len(invocations) = Len(f.invocations)
\* the call made alone sees the prompts the earlier call saw, and with the
\* same responses it ends as the earlier call did
C20_State ==
    cur = Alone =>
      /\ IsPrefix(model_calls, frames[alone_of].model_calls)
      /\ IsPrefix(tool_runs, frames[alone_of].tool_runs)
      /\ IsPrefix(invocations, frames[alone_of].invocations)
      /\ AloneCaughtUp(frames[alone_of]) =>
            /\ apc = frames[alone_of].apc
            /\ agent_result = frames[alone_of].agent_result
            /\ conversation_history = frames[alone_of].conversation_history
            /\ wpc = frames[alone_of].wpc
            /\ result = frames[alone_of].result
            /\ agent_outputs = frames[alone_of].agent_outputs
            /\ current_context = frames[alone_of].current_context
\* a thread that goes on finds the history, the context and the outputs it
\* had when it was switched out, and a step of the running thread leaves
\* those of the other threads alone
C20_Step ==
    /\ (cur' # cur /\ cur' \in Threads) =>
          /\ conversation_history' = frames[cur'].conversation_history
          /\ current_context' = frames[cur'].current_context
          /\ agent_outputs' = frames[cur'].agent_outputs
          /\ frames'[cur].conversation_history = conversation_history
          /\ frames'[cur].current_context = current_context
          /\ frames'[cur].agent_outputs = agent_outputs
    /\ cur' = cur => frames' = frames

\* C20: two calls of run that execute concurrently on one Agent or one
\* Workflow share no loop state: the conversation history, the supervised
\* context and the agent_outputs of a call are not read or written by the
\* other, so under every interleaving each call returns what it returns when
\* run alone with the same responses of the model, the tools and the agents.
C20_NoSharedLoopState == []C20_State /\ [][C20_Step]_vars

\* a call that was switched out in the middle of its loop, made again alone:
\* two model calls and the same answer
C20_Witness ==
    /\ cur = Alone /\ alone_of \in overlapped
    /\ overlapped = Threads
    /\ AloneCaughtUp(frames[alone_of])
    /\ Len(model_calls) = 2 /\ Len(tool_runs) = 1
    /\ apc = "returned" /\ agent_result = frames[alone_of].agent_result
    /\ \A t \in Threads : Len(frames[t].model_calls) = 2


\* ---- C21
\* the Prompt object was built from a raw prompt
IsRawPrompt == Truthy(prompt_obj.raw_prompt)
\* the schema get_parameters_schema gives for tool t, the empty dict when
\* the tool has no such method
SchemaGiven(t) == IF HasSchemaMethod[t] THEN ParametersSchema[t] ELSE EmptyDict
\* the text names tool t at piece i, with the serialized schema when the
\* schema is not empty
ShowsTool(text, i, t) ==
    /\ text[i].name = t
    /\ SchemaGiven(t) # EmptyDict => text[i].params = JsonDumps(SchemaGiven(t))
\* the text has every tool of ts and after them the response contract
ToolsThenContract(text, ts) ==
    /\ Len(text) > 0
    /\ text[Len(text)] = Prerequisite
    /\ \A k \in 1..Len(ts) :
          \E i \in 1..(Len(text) - 1) : ShowsTool(text, i, ts[k])

\* C21 as stated: the chained expression set_tools([t]).render() on a
\* raw-prompt Prompt yields a string that has t.name, the serialized schema
\* of t when it is not empty, and then the response-contract block
C21_Original ==
    (prompt_ret.call = "set_tools.render" /\ IsRawPrompt /\ Len(prompt_ret.arg) = 1)
    => /\ prompt_ret.kind = "str"
       /\ ToolsThenContract(prompt_ret.text, prompt_ret.arg)

\* C21: set_tools returns None, so the chained expression raises an
\* AttributeError; render called on the raw-prompt Prompt itself after
\* set_tools(ts) with tools in ts yields a string that starts with the raw
\* prompt, has the name of every tool of ts with its serialized schema when
\* that is not empty, and ends with the response-contract block
C21_PromptRender ==
    /\ prompt_ret.call = "set_tools" => prompt_ret.kind = "None"
    /\ prompt_ret.call = "set_tools.render"
         => /\ prompt_ret.kind = "AttributeError"
            /\ prompt_ret.msg = AttrErrorRender
            /\ prompt_obj.tools = prompt_ret.arg
    /\ (prompt_ret.call = "render" /\ IsRawPrompt /\ prompt_obj.tools # <<>>)
         => /\ prompt_ret.kind = "str"
            /\ prompt_ret.text[1].text = prompt_obj.raw_prompt.t
            /\ ToolsThenContract(prompt_ret.text, prompt_obj.tools)

\* render was called on a raw-prompt Prompt whose one tool has a schema
C21_Witness ==
    /\ prompt_ret.call = "render"
    /\ IsRawPrompt
    /\ prompt_obj.tools = <<"calc">>
    /\ prompt_ret.kind = "str"

\* ---- C22
\* the direct sub-agents of the agent the accessor was called on
DirectSubs == SubAgentsOf[lookup.agent]
\* the direct sub-agent at place i has the name that was asked for
IsNamed(i) == AgentName[DirectSubs[i]] = lookup.arg

\* C22: is_supervisor() is true exactly when sub_agents is non-empty,
\* get_all_sub_agent_names() gives the names of the direct sub-agents in
\* list order, and find_sub_agent_by_name(n) gives the first direct
\* sub-agent named n, or None when no direct sub-agent has that name
C22_SubAgentAccessors ==
    /\ lookup.op = "is_supervisor" => (lookup.bool <=> DirectSubs # <<>>)
    /\ lookup.op = "get_all_sub_agent_names"
         => /\ Len(lookup.names) = Len(DirectSubs)
            /\ \A i \in 1..Len(DirectSubs) :
                   lookup.names[i] = AgentName[DirectSubs[i]]
    /\ lookup.op = "find_sub_agent_by_name"
         => IF \E i \in 1..Len(DirectSubs) : IsNamed(i)
            THEN \E i \in 1..Len(DirectSubs) :
                    /\ IsNamed(i)
                    /\ \A j \in 1..(i - 1) : ~IsNamed(j)
                    /\ lookup.found = DirectSubs[i]
            ELSE lookup.found = NoAgent

\* an agent two of whose sub-agents have the name was asked for it
C22_Witness ==
    /\ lookup.op = "find_sub_agent_by_name"
    /\ Cardinality({i \in 1..Len(DirectSubs) : IsNamed(i)}) = 2
    /\ lookup.found = "a3"

\* ---- C23
\* a run call is in progress, and the list object its agent_outputs is
RunInProgress == wpc # "idle"
ListOfRunningCall == ListOfCall(Len(returned) + 1)
\* the WorkflowResult h as its holder reads it: its agent_outputs is a list
\* object, and reads as what that list holds now
ReadOf(h) ==
    IF RunInProgress /\ h.list = ListOfRunningCall
    THEN [h.result EXCEPT !.agent_outputs = agent_outputs]
    ELSE h.result
\* the agent.run calls the k-th run call made, and those of them that an
\* agent_outputs entry is written for
CallsOfRun(k) ==
    SubSeq(invocations, (IF k = 1 THEN 0 ELSE returned[k - 1].calls) + 1,
           returned[k].calls)
IsRecordedCall(e) == e.role = "worker" /\ ~e.raised
RecordedCalls(k) == SelectSeq(CallsOfRun(k), IsRecordedCall)
\* the entry is the record of the call
EntryOf(entry, e) ==
    /\ entry.agent_name = PLit(AgentName[e.agent])
    /\ entry.input = e.arg
    /\ entry.output = e.out
C23_State ==
    \A k \in 1..Len(returned) :
       LET outs == ReadOf(returned[k]).agent_outputs
       IN /\ Len(outs) = Len(RecordedCalls(k))
          /\ \A i \in 1..Len(outs) : EntryOf(outs[i], RecordedCalls(k)[i])
C23_Step ==
    /\ Len(returned') >= Len(returned)
    /\ \A k \in 1..Len(returned) : ReadOf(returned[k])' = ReadOf(returned[k])

\* C23: across the run calls made on one Workflow, the agent_outputs of
\* every result holds exactly the entries of the agent calls made during
\* its own run call, and a result that was returned reads the same after
\* every later step of every later run call
C23_FreshResult == []C23_State /\ [][C23_Step]_vars

\* two run calls have returned, each with an entry in its agent_outputs
C23_Witness ==
    /\ Len(returned) = 2
    /\ returned[1].result.agent_outputs # <<>>
    /\ returned[2].result.agent_outputs # <<>>
    /\ returned[1].calls < returned[2].calls

\* ---- C24
\* the step is an ACT: the matched tool is run
ActStep == apc = "act" /\ Len(tool_runs') = Len(tool_runs) + 1
ToolRunMade == tool_runs'[Len(tool_runs')]
ActThatReturned == ActStep /\ ~ToolRunMade.raised
\* the entries the step appended to the history
Appended ==
    SubSeq(conversation_history', Len(conversation_history) + 1,
           Len(conversation_history'))
AppendsOnly ==
    /\ Len(conversation_history') >= Len(conversation_history)
    /\ SubSeq(conversation_history', 1, Len(conversation_history)) = conversation_history
\* the history lines of a call, of a result and of an error
IsCallLine(e, n, i) == e.k = "call" /\ e.tool_name = n /\ e.tool_input = i
IsResultLine(e, r) == e.k = "result" /\ e.t = r
IsErrorLine(e, n, m) == e.k = "error" /\ e.tool_name = n /\ e.msg = m

\* C24 as stated: every ACT appends two entries, the call and then its
\* result, or the error text when the call ended in an error
C24_OriginalStep ==
    ActStep =>
       /\ AppendsOnly
       /\ Len(Appended) = 2
       /\ IsCallLine(Appended[1], tool_call.tool_name, tool_call.tool_input)
       /\ IF ToolRunMade.raised
          THEN IsErrorLine(Appended[2], tool_call.tool_name, ToolRunMade.msg)
          ELSE IsResultLine(Appended[2], ToolRunMade.out)
C24_Original == [][C24_OriginalStep]_vars

\* C24: an ACT whose tool returns appends exactly two history entries, the
\* call (tool name and input) and then the result; an ACT that ends in an
\* error, the tool raising or no tool matching the name, appends exactly
\* one entry, the error text with the tool name, and no entry for the call
C24_Step ==
    /\ ActThatReturned =>
          /\ AppendsOnly
          /\ Len(Appended) = 2
          /\ IsCallLine(Appended[1], tool_call.tool_name, tool_call.tool_input)
          /\ IsResultLine(Appended[2], ToolRunMade.out)
    /\ ActThatRaised =>
          /\ AppendsOnly
          /\ Len(Appended) = 1
          /\ IsErrorLine(Appended[1], tool_call.tool_name, ToolRunMade.msg)
    /\ ThinkOfUnknownTool =>
          /\ AppendsOnly
          /\ Len(Appended) = 1
          /\ Appended[1].k = "error"
C24_Observe == [][C24_Step]_vars

\* one ACT returned and a later ACT raised
C24_Witness ==
    /\ \E i \in 1..Len(tool_runs) : \E j \in (i + 1)..Len(tool_runs) :
          ~tool_runs[i].raised /\ tool_runs[j].raised
    /\ \E i \in 1..(Len(conversation_history) - 2) :
          /\ conversation_history[i].k = "call"
          /\ conversation_history[i + 1].k = "result"
          /\ conversation_history[i + 2].k = "error"

\* ---- C25
\* the step is a THINK whose model call returned a text with no call in it
ThinkStep == apc = "think" /\ Len(model_calls') = Len(model_calls) + 1
ResponseMade == model_calls'[Len(model_calls')]
ThinkWithoutCall ==
    ThinkStep /\ ~ResponseMade.raised /\ ~MentionsCall(ResponseMade.out)
\* the response is put into the history, the pass is used up and the loop
\* goes on, to the exhaustion message when that was the last pass
RecordedAndGoesOn ==
    /\ Len(Appended) = 1 /\ AppendsOnly
    /\ Appended[1].k = "assistant"
    /\ Appended[1].t = ResponseMade.out
    /\ tool_runs' = tool_runs
    /\ LoopGoesOn
\* the response is returned as the final answer
ReturnedAtOnce ==
    /\ apc' = "returned"
    /\ agent_result' = [ty |-> "str", t |-> ResponseMade.out]
    /\ conversation_history' = conversation_history
    /\ tool_runs' = tool_runs

\* C25 as stated: a response without a call that has a failure phrase is
\* recorded and the loop goes on; every other response without a call is
\* returned at once
C25_OriginalStep ==
    ThinkWithoutCall =>
       IF MentionsFailure(ResponseMade.out) THEN RecordedAndGoesOn ELSE ReturnedAtOnce
C25_Original == [][C25_OriginalStep]_vars

\* C25: at a THINK step with no call in the response, a response with one
\* of the two failure phrases in any letter case, and also the empty
\* response, is not returned: it is appended to the history, the step uses
\* up one of the max_iterations passes and the loop goes on; every other
\* response, which is not empty, is returned at once as the final answer
C25_Step ==
    ThinkWithoutCall =>
       IF MentionsFailure(ResponseMade.out) \/ ResponseMade.out = <<>>
       THEN RecordedAndGoesOn
       ELSE ReturnedAtOnce
C25_FailurePhrase == [][C25_Step]_vars

\* a response with a failure phrase was recorded, and the next response was
\* returned as the final answer
C25_Witness ==
    /\ Len(model_calls) = 2
    /\ MentionsFailure(model_calls[1].out) /\ ~MentionsCall(model_calls[1].out)
    /\ conversation_history[2] = [k |-> "assistant", t |-> model_calls[1].out,
                                  tool_name |-> Abs, tool_input |-> Abs, msg |-> ""]
    /\ apc = "returned"
    /\ agent_result = [ty |-> "str", t |-> model_calls[2].out]
    /\ model_calls[2].out = StrText("final answer")

\* ---- C26
\* the step is a pass of the supervised loop in which the manager answered
ManagerStep == wpc = "sup_manager" /\ Len(invocations') = Len(invocations) + 1
ManagerAnswer == invocations'[Len(invocations')]
\* the answer is neither a complete decision nor a delegate decision
IsUnrecognized(text) == ~IsCompleteJson(text) /\ ~IsDelegateJson(text)
\* the raw text has the word complete in it, in any letter case
SaysComplete(text) == ContainsLower(text, CompleteWords)
\* the pass ends without a worker call and without an abort: the next pass
\* starts, or the passes are used up
NextPassOrExhausted ==
    \/ wpc' = "sup_manager" /\ result' = result
    \/ /\ wpc' = "done" /\ iteration' = max_iterations
       /\ result'.error = [ty |-> "str", t |-> <<Word("Maximum iterations reached")>>]

\* C26: on a manager response that is neither a complete nor a delegate
\* decision (text that is no JSON, an object with another action, an object
\* with no action), the workflow completes successfully with the raw text
\* as final_output when the raw text says complete in any letter case, and
\* otherwise sets current_status to unknown_action and goes on to the next
\* iteration with no worker call and no abort
C26_Step ==
    (ManagerStep /\ ~ManagerAnswer.raised /\ IsUnrecognized(ManagerAnswer.out)) =>
       IF SaysComplete(ManagerAnswer.out)
       THEN /\ wpc' = "done"
            /\ result'.success = TRUE
            /\ result'.final_output = [ty |-> "str", t |-> ManagerAnswer.out]
       ELSE /\ current_context'.current_status = [tag |-> "unknown_action",
                                                   name |-> PAbsent]
            /\ agent_outputs' = agent_outputs
            /\ NextPassOrExhausted
C26_UnrecognizedResponse == [][C26_Step]_vars

\* ---- C27
\* the manager call is answered with a complete decision
AnswersComplete(e) == IsManagerCall(e) /\ ~e.raised /\ IsCompleteJson(e.out)
\* final_output for the decision of call e: the final_answer it gives, None
\* for null, and the raw text when the decision has no final_answer
FinalOutputFor(e) ==
    LET fa == TheObj(e.out).final_answer
    IN IF fa.ty = "absent" THEN [ty |-> "str", t |-> e.out]
       ELSE IF fa.ty = "null" THEN [ty |-> "none", t |-> <<>>]
       ELSE [ty |-> "str", t |-> <<Word(fa.s)>>]

\* C27: a manager response with action complete ends the loop in that
\* iteration: it is the last agent call of the run, the result has
\* success=true, and final_output is the final_answer of the decision, or
\* the raw response text when the decision has no final_answer
C27_SupervisedCompletion ==
    mode = "supervised" =>
       \A j \in 1..Len(invocations) :
          AnswersComplete(invocations[j]) =>
             /\ j = Len(invocations)
             /\ wpc = "done"
             /\ iteration = Len(ManagerCalls)
             /\ result.success = TRUE
             /\ result.error = PNone
             /\ result.final_output = FinalOutputFor(invocations[j])
             /\ result.agent_outputs = agent_outputs

\* in its second iteration, after a delegation, the manager answers
\* complete with no final_answer
C27_Witness ==
    /\ mode = "supervised" /\ wpc = "done" /\ Len(invocations) = 3
    /\ invocations[2].role = "worker" /\ ~invocations[2].raised
    /\ invocations[3].out = <<ObjTok([EmptyObj EXCEPT !.action = JStr("complete")])>>
    /\ result.success
    /\ result.final_output = [ty |-> "str", t |-> invocations[3].out]
    /\ Len(result.agent_outputs) = 1

\* ---- C28
\* the worker calls among the first n agent calls that returned, and the
\* iteration call j was made in: the number of manager calls up to it
ReturnedWorkerCalls(n) ==
    {j \in 1..n : invocations[j].role = "worker" /\ ~invocations[j].raised}
IterationOf(j) ==
    Cardinality({i \in 1..j : invocations[i].role = "manager"})
\* outs has one entry for each worker call before call k that returned, in
\* the order of the calls, with the name, input, output and iteration of it
EntriesBefore(outs, k) ==
    /\ Len(outs) = Cardinality(ReturnedWorkerCalls(k - 1))
    /\ \A j \in ReturnedWorkerCalls(k - 1) :
          LET e == outs[Cardinality(ReturnedWorkerCalls(j))]
          IN /\ e.agent_name = [ty |-> "str", t |-> <<Word(AgentName[invocations[j].agent])>>]
             /\ e.input = invocations[j].arg
             /\ e.output = invocations[j].out
             /\ e.iteration = IterationOf(j)
             /\ e.delegated_by = "manager"

\* C28: when the manager's run or a delegated worker's run raises in a
\* supervised run, it is the last agent call of the run, and the result
\* has success=false, final_output "", error equal to the message of the
\* exception, and as agent_outputs the entries of the delegations that
\* returned before it, none for the failing call
C28_SupervisedAbort ==
    mode = "supervised" =>
       \A k \in 1..Len(invocations) :
          invocations[k].raised =>
             /\ k = Len(invocations)
             /\ wpc = "done"
             /\ result.success = FALSE
             /\ result.final_output = [ty |-> "str", t |-> <<>>]
             /\ result.error = [ty |-> "str", t |-> StrText(invocations[k].msg)]
             /\ EntriesBefore(result.agent_outputs, k)

\* a delegation returned in the first iteration and the delegated worker
\* raised in the second
C28_Witness ==
    /\ mode = "supervised" /\ wpc = "done" /\ Len(invocations) = 4
    /\ invocations[2].role = "worker" /\ ~invocations[2].raised
    /\ invocations[4].role = "worker" /\ invocations[4].raised
    /\ invocations[4].msg = "boom"
    /\ Len(result.agent_outputs) = 1
    /\ result.success = FALSE

\* ---- C29
\* run was called on an agent with tools and has made its history
HistoryMade ==
    tools # <<>> /\ model_supported /\ apc \in {"think", "act", "returned", "raised"}
C29_State ==
    HistoryMade =>
       /\ Len(conversation_history) >= 1
       /\ conversation_history[1].k = "user"
       /\ conversation_history[1].t = agent_input
C29_Step == IsPrefix(conversation_history, conversation_history')

\* C29: within one run of an agent with tools the first history entry is
\* always the user input, and every step of the run leaves the history it
\* found as a prefix of the history it leaves: entries are only appended
C29_AppendOnlyHistory == []C29_State /\ [][C29_Step]_vars

\* the history has the user input, a call with its result and an error
C29_Witness ==
    /\ HistoryMade /\ apc = "returned"
    /\ Len(conversation_history) = 4
    /\ conversation_history[1].t = StrText("x")
    /\ conversation_history[2].k = "call"
    /\ conversation_history[3].k = "result"
    /\ conversation_history[4].k = "error"

\* ---- C30
\* C30: in every state of a supervised Workflow, after construction and
\* after every sequence of add_agent, remove_agent and run calls,
\* manager_agent is set and is not a member of agents
C30_ManagerNotMember ==
    mode = "supervised" =>
       /\ manager_agent # NoAgent
       /\ \A i \in 1..Len(agents) : agents[i] # manager_agent

\* ---- C31
\* C31: the agents list of a sequential or supervised Workflow is not
\* empty in any state, after construction and after every sequence of
\* add_agent and remove_agent calls
C31_AgentsNonEmpty ==
    mode \in {"sequential", "supervised"} => agents # <<>>

\* ---- C32
\* Workflow was called with a mode that is declared and not implemented,
\* and with agents
UnimplementedModeCall ==
    /\ WfCalled
    /\ wf_ctor.mode \in {"parallel", "conditional"}
    /\ wf_ctor.agents # <<>>
\* the text of the error of run for the mode
UnsupportedText(md) ==
    IF md = "parallel" THEN <<Word("Unsupported workflow mode: parallel")>>
    ELSE <<Word("Unsupported workflow mode: conditional")>>

\* C32: a Workflow(...) call with mode parallel or conditional is accepted,
\* and run on the object it made invokes no agent and returns
\* success=false, final_output "", no agent_outputs and the error
\* "Unsupported workflow mode: <mode>"
C32_UnimplementedModes ==
    UnimplementedModeCall =>
       /\ wf_ctor.state = "ok"
       /\ mode = wf_ctor.mode /\ agents = wf_ctor.agents
       /\ invocations = <<>>
       /\ wpc \in {"idle", "done"}
       /\ wpc = "done" =>
             result = [success |-> FALSE, final_output |-> [ty |-> "str", t |-> <<>>],
                       agent_outputs |-> <<>>,
                       error |-> [ty |-> "str", t |-> UnsupportedText(mode)]]

\* run has returned on a Workflow made with mode conditional and a manager
C32_Witness ==
    /\ UnimplementedModeCall /\ wf_ctor.mode = "conditional"
    /\ wf_ctor.manager_agent = "m" /\ Len(agents) = 3
    /\ wpc = "done" /\ result.success = FALSE
    /\ result.error.t = <<Word("Unsupported workflow mode: conditional")>>

\* C33: for an agent with tools whose model backend never raises, Agent.run
\* ends by returning a string (a final answer or the exhaustion message)
\* whatever the model responses are, a tool_call value without tool_name or
\* tool_input or one that is not a JSON object included: an exception leaves
\* run only when a get_response call raised
NoModelCallRaised == \A i \in 1..Len(model_calls) : ~model_calls[i].raised
C33_OnlyModelLayerRaises ==
    (tools # <<>> /\ NoModelCallRaised) =>
        /\ apc # "raised"
        /\ apc = "returned" => agent_result.ty = "str"

\* C34: in supervised mode agent_outputs and the context's completed_tasks
\* stay in lockstep: they have the same length and at each index the two
\* records name the same agent with the same input, output and iteration;
\* a delegation whose worker returned adds exactly one record to both, and
\* no other step of the run changes either
SameRecord(o, t) ==
    /\ o.agent_name = t.agent
    /\ o.input = t.input
    /\ o.output = t.output
    /\ o.iteration = t.iteration
InLockstep(outs, tasks) ==
    /\ Len(outs) = Len(tasks)
    /\ \A i \in 1..Len(outs) : SameRecord(outs[i], tasks[i])
DelegationReturned ==
    /\ wpc = "sup_worker"
    /\ Len(invocations') = Len(invocations) + 1
    /\ ~invocations'[Len(invocations')].raised
C34_State == mode = "supervised" => InLockstep(agent_outputs, current_context.completed_tasks)
C34_Step ==
    mode = "supervised" =>
        IF DelegationReturned
        THEN /\ Len(agent_outputs') = Len(agent_outputs) + 1
             /\ SubSeq(agent_outputs', 1, Len(agent_outputs)) = agent_outputs
             /\ Len(current_context'.completed_tasks) = Len(current_context.completed_tasks) + 1
             /\ SubSeq(current_context'.completed_tasks, 1, Len(current_context.completed_tasks))
                    = current_context.completed_tasks
        ELSE /\ agent_outputs' = agent_outputs
             /\ current_context'.completed_tasks = current_context.completed_tasks
C34_Lockstep == []C34_State /\ [][C34_Step]_vars
C34_Witness ==
    /\ mode = "supervised" /\ wpc = "done"
    /\ Len(agent_outputs) = 2 /\ Len(current_context.completed_tasks) = 2
    /\ agent_outputs[1].iteration = 1 /\ agent_outputs[2].iteration = 2
    /\ agent_outputs[1].agent_name # agent_outputs[2].agent_name
    /\ agent_outputs[2].input # agent_outputs[2].output
    /\ SameRecord(agent_outputs[2], current_context.completed_tasks[2])

\* C35: counting in a supervised run: there are at most as many worker
\* invocations as manager invocations and at most max_iterations manager
\* invocations; every pass of the loop invokes the manager exactly once and
\* then at most one worker; the iteration fields of agent_outputs are
\* strictly increasing and lie in 1..max_iterations
CallsOfRole(role) == {j \in 1..Len(invocations) : invocations[j].role = role}
OneManagerThenAtMostOneWorker ==
    /\ Cardinality(CallsOfRole("manager")) = iteration
    /\ \A j \in CallsOfRole("worker") :
          j > 1 /\ invocations[j - 1].role = "manager"
IterationsIncrease(outs) ==
    /\ \A i \in 1..Len(outs) : outs[i].iteration \in 1..max_iterations
    /\ \A i \in 1..Len(outs) : \A j \in 1..Len(outs) :
          i < j => outs[i].iteration < outs[j].iteration
C35_SupervisedCounting ==
    mode = "supervised" =>
        /\ Cardinality(CallsOfRole("worker")) <= Cardinality(CallsOfRole("manager"))
        /\ Cardinality(CallsOfRole("manager")) <= max_iterations
        /\ OneManagerThenAtMostOneWorker
        /\ IterationsIncrease(agent_outputs)
C35_Witness ==
    /\ mode = "supervised" /\ wpc = "done" /\ max_iterations = 2
    /\ Cardinality(CallsOfRole("manager")) = 2
    /\ Cardinality(CallsOfRole("worker")) = 2
    /\ invocations[4].role = "worker" /\ ~invocations[4].raised
    /\ Len(agent_outputs) = 2
    /\ agent_outputs[1].iteration = 1 /\ agent_outputs[2].iteration = 2
    /\ result.error = [ty |-> "str", t |-> <<Word("Maximum iterations reached")>>]

\* C36: when an agent with tools gets an empty response from the model, the
\* response is not returned as the final answer: one history entry for it is
\* appended, the pass of the loop is used up and the loop goes on to the next
\* pass or to the exhaustion message; a run whose model answers every call
\* with an empty response ends with the exhaustion message after exactly
\* max_iterations model calls
EmptyResponseStep ==
    /\ tools # <<>> /\ apc = "think"
    /\ Len(model_calls') = Len(model_calls) + 1
    /\ ~model_calls'[Len(model_calls')].raised
    /\ model_calls'[Len(model_calls')].out = <<>>
AllResponsesEmpty ==
    \A i \in 1..Len(model_calls) : ~model_calls[i].raised /\ model_calls[i].out = <<>>
ExhaustedAfterAllPasses ==
    /\ apc = "returned"
    /\ agent_result = [ty |-> "str", t |-> <<Word(ExhaustedMsg)>>]
    /\ Len(model_calls) = agent_max_iterations
C36_Step ==
    EmptyResponseStep =>
        /\ conversation_history' = Append(conversation_history,
               [k |-> "assistant", t |-> <<>>, tool_name |-> Abs,
                tool_input |-> Abs, msg |-> ""])
        /\ tool_runs' = tool_runs
        /\ IF Len(model_calls') < agent_max_iterations
           THEN apc' = "think" /\ loop_i' = loop_i + 1
           ELSE apc' = "returned"
                /\ agent_result' = [ty |-> "str", t |-> <<Word(ExhaustedMsg)>>]
C36_State ==
    (tools # <<>> /\ model_supported /\ AllResponsesEmpty) =>
        /\ apc \in {"idle", "think", "returned"}
        /\ apc # "idle" => Len(conversation_history) = 1 + Len(model_calls)
        /\ apc = "think" => Len(model_calls) < agent_max_iterations
        /\ apc = "returned" => ExhaustedAfterAllPasses
C36_Settled ==
    \/ tools = <<>>
    \/ ~model_supported
    \/ ~AllResponsesEmpty
    \/ ExhaustedAfterAllPasses
C36_EmptyResponse == []C36_State /\ [][C36_Step]_vars /\ <>C36_Settled
C36_Witness ==
    /\ tools # <<>> /\ agent_max_iterations = 2 /\ AllResponsesEmpty
    /\ ExhaustedAfterAllPasses
    /\ Len(conversation_history) = 3
    /\ conversation_history[2].k = "assistant" /\ conversation_history[2].t = <<>>
    /\ conversation_history[3].k = "assistant" /\ conversation_history[3].t = <<>>
    /\ tool_runs = <<>>

\* C37: the worker a delegate decision names is invoked with the decision's
\* task_input, and with the workflow's original input when the decision has
\* no task_input member; the input recorded in the worker's agent_outputs
\* entry is the value the worker was invoked with
DelegatedInput(obj) ==
    IF obj.task_input = Abs THEN [ty |-> "str", t |-> input_data]
    ELSE IF obj.task_input = JNull THEN [ty |-> "none", t |-> <<>>]
    ELSE [ty |-> "str", t |-> <<Word(obj.task_input.s)>>]
C37_DelegationInput ==
    mode = "supervised" =>
        \A j \in 1..Len(invocations) :
           invocations[j].role = "worker" =>
              /\ j > 1
              /\ invocations[j - 1].role = "manager"
              /\ IsDelegateJson(invocations[j - 1].out)
              /\ NameExists(TheObj(invocations[j - 1].out).agent_name)
              /\ invocations[j].agent = FirstNamed(TheObj(invocations[j - 1].out).agent_name.s)
              /\ invocations[j].arg = DelegatedInput(TheObj(invocations[j - 1].out))
              /\ (~invocations[j].raised /\ (j < Len(invocations) \/ wpc # "sup_worker")) =>
                    agent_outputs[Cardinality(ReturnedWorkerCalls(j))].input
                        = invocations[j].arg
C37_Witness ==
    /\ mode = "supervised" /\ wpc = "done" /\ Len(invocations) = 4
    /\ input_data # <<>>
    /\ TheObj(invocations[1].out) = DelegateObj(JStr("beta"), Abs)
    /\ invocations[2].agent = "a2"
    /\ invocations[2].arg = [ty |-> "str", t |-> input_data]
    /\ TheObj(invocations[3].out) = DelegateObj(JStr("alpha"), JStr("T1"))
    /\ invocations[4].arg = [ty |-> "str", t |-> <<Word("T1")>>]
    /\ agent_outputs[1].input = [ty |-> "str", t |-> input_data]
    /\ agent_outputs[2].input = [ty |-> "str", t |-> <<Word("T1")>>]

\* C38: when two agents call cache_toolkit_auth at the same time for
\* different keys of one cache file, then once the calls have finished the
\* file holds the entry of every finished call (no write is lost), and a
\* call never removes or alters the entry of a key other than its own
NoCacheCallRunning == \A w \in CacheCallers : cache_pc[w] = "idle"
====
